---------------------------- MODULE Spec2Model ----------------------------
(***************************************************************************)
(* Model of the OSPF topology reconstruction engine, src/lib/ospf-parser.ts *)
(* (the multi-command revision, lines 500-1303).                           *)
(* It covers the LSA parsers, the auxiliary command parsers and the         *)
(* assembler parseOSPFData, one entry of calls per call of parseOSPFData.   *)
(*                                                                         *)
(* A text is modelled as the list of its lines (what split("\n") returns). *)
(* A line is modelled by the class the parser's regular expressions put it *)
(* in (k), together with the captured group: a string (s) or a number (n). *)
(* Maps and Sets of the code keep insertion order, so they are sequences.  *)
(* page is the state of the page component of src/app/page.tsx that calls  *)
(* the parser and the differ.                                              *)
(***************************************************************************)
EXTENDS Naturals, Integers, Sequences, FiniteSets, TLC

VARIABLES calls, sched, page

vars == <<calls, sched, page>>

(***************************************************************************)
(* Lines                                                                   *)
(***************************************************************************)
L(k, s, n) == [k |-> k, s |-> s, n |-> n]

EmptyLine == L("other", "", 0)

\* JS undefined for a string-valued field, and for a number-valued field.
Undef == "<undefined>"

UndefNum == 0 - 1

\* Absent field of the input bundle (multi.raw === undefined).
Undefined == << >>

TypeRouter == "Router Links"

TypeNetwork == "Network Links"

TypeSum3 == "Summary Links (Network)"

TypeSum4 == "Summary Links (AS Boundary Router)"

TypeExt == "AS External Link"

LsaRouter == "Router LSA (Type 1)"

LsaNetwork == "Network LSA (Type 2)"

LsaSum3 == "Summary LSA (Type 3)"

LsaSum4 == "ASBR Summary LSA (Type 4)"

LsaExt == "AS External LSA (Type 5)"

(***************************************************************************)
(* Sequence helpers                                                        *)
(***************************************************************************)
Range(q) == {q[i] : i \in DOMAIN q}

Includes(q, x) == \E i \in DOMAIN q : q[i] = x

\* if (!list.includes(x)) list.push(x)
PushNew(q, x) == IF Includes(q, x) THEN q ELSE Append(q, x)

\* JS truthiness of an optional string.
Truthy(s) == s # Undef /\ s # ""

RECURSIVE Flatten(_)
Flatten(qq) == IF qq = << >> THEN << >> ELSE Head(qq) \o Flatten(Tail(qq))

\* Value captured by the last line of class k (every matcher assigns and
\* continues, so the last match wins); d when no line matches.
RECURSIVE LastS(_, _, _)
LastS(ls, k, d) ==
  IF ls = << >> THEN d
  ELSE LET l == ls[Len(ls)] IN
       IF l.k = k THEN l.s ELSE LastS(SubSeq(ls, 1, Len(ls) - 1), k, d)

(***************************************************************************)
(* Block splitter                                                          *)
(***************************************************************************)
IsLSAStart(l) == l.k \in {"age", "maxage"}

FlushCurrent(blocks, cur) ==
  IF Len(cur) > 0
    THEN Append(blocks, [isAreaHeader |-> FALSE, area |-> Undef, lines |-> cur])
    ELSE blocks

\* SplitStep whose section header is pushed without closing the open block.
SplitStepHeaderKeepsOpen(st, l) ==
  IF l.k = "hdr"
    THEN [blocks |-> Append(st.blocks,
                            [isAreaHeader |-> TRUE, area |-> l.s, lines |-> << >>]),
          cur    |-> st.cur]
  ELSE IF IsLSAStart(l)
    THEN [blocks |-> FlushCurrent(st.blocks, st.cur), cur |-> <<l>>]
  ELSE IF st.cur # << >>
    THEN [blocks |-> st.blocks, cur |-> Append(st.cur, l)]
  ELSE st

\* One pass of the loop over the lines; st = [blocks, cur], where cur = << >>
\* stands for current === null (an open block is never empty).
SplitStep(st, l) ==
  IF l.k = "hdr"
    THEN [blocks |-> Append(FlushCurrent(st.blocks, st.cur),
                            [isAreaHeader |-> TRUE, area |-> l.s, lines |-> << >>]),
          cur    |-> << >>]
  ELSE IF IsLSAStart(l)
    THEN [blocks |-> FlushCurrent(st.blocks, st.cur), cur |-> <<l>>]
  ELSE IF st.cur # << >>
    THEN [blocks |-> st.blocks, cur |-> Append(st.cur, l)]
  ELSE st

\* The loop over lines[lo..hi], in order. The range is run half by half, the
\* first half being evaluated before the second is entered, which keeps the
\* depth of the evaluation logarithmic in the number of lines.
RECURSIVE SplitRange(_, _, _, _)
SplitRange(st, lines, lo, hi) ==
  IF lo > hi THEN st
  ELSE IF lo = hi THEN SplitStep(st, lines[lo])
  ELSE LET mid  == (lo + hi) \div 2
           left == SplitRange(st, lines, lo, mid)
       IN  IF Len(left.blocks) >= 0 THEN SplitRange(left, lines, mid + 1, hi) ELSE left

splitLSABlocks(lines) ==
  LET st == SplitRange([blocks |-> << >>, cur |-> << >>], lines, 1, Len(lines))
  IN  FlushCurrent(st.blocks, st.cur)

\* block.lines.some(l => /LS Type:\s*<signature>/i.test(l))
HasType(block, sig) == \E i \in DOMAIN block.lines :
  block.lines[i].k = "type" /\ block.lines[i].s = sig

\* The area in force at block i: the last area header before it, else "0".
RECURSIVE CurrentArea(_, _)
CurrentArea(blocks, i) ==
  IF i = 0 THEN "0"
  ELSE IF blocks[i].isAreaHeader THEN blocks[i].area
  ELSE CurrentArea(blocks, i - 1)

\* LS age of a block: parseInt of the digits, MAXAGE(n) read as n.
RECURSIVE AgeOf(_)
AgeOf(ls) ==
  IF ls = << >> THEN 0
  ELSE LET l == ls[Len(ls)] IN
       IF IsLSAStart(l) THEN l.n ELSE AgeOf(SubSeq(ls, 1, Len(ls) - 1))

\* metric = 0; TOS-0 line assigns; bare "Metric:" assigns only while metric = 0.
RECURSIVE MetricFrom(_, _, _)
MetricFrom(ls, i, m) ==
  IF i > Len(ls) THEN m
  ELSE IF ls[i].k = "tos0" THEN MetricFrom(ls, i + 1, ls[i].n)
  ELSE IF ls[i].k = "metric" /\ m = 0 THEN MetricFrom(ls, i + 1, ls[i].n)
  ELSE MetricFrom(ls, i + 1, m)

(***************************************************************************)
(* Link sub-block parser                                                   *)
(***************************************************************************)
LinkTypeOf(desc) ==
  IF desc = "another Router (point-to-point)" THEN "point-to-point"
  ELSE IF desc = "a Transit Network" THEN "transit"
  ELSE "stub"

RECURSIVE LinkStartIndices(_, _)
LinkStartIndices(ls, i) ==
  IF i > Len(ls) THEN << >>
  ELSE IF ls[i].k = "link" THEN <<i>> \o LinkStartIndices(ls, i + 1)
  ELSE LinkStartIndices(ls, i + 1)

RECURSIVE LinksFrom(_, _, _)
LinksFrom(ls, starts, li) ==
  IF li > Len(starts) THEN << >>
  ELSE LET start == starts[li]
           end   == IF li + 1 <= Len(starts) THEN starts[li + 1] ELSE Len(ls) + 1
           body  == SubSeq(ls, start + 1, end - 1)
           linkId == LastS(body, "linkid", "")
           link  == [type     |-> LinkTypeOf(ls[start].s),
                     linkId   |-> linkId,
                     linkData |-> LastS(body, "linkdata", ""),
                     metric   |-> MetricFrom(body, 1, 0)]
       IN  IF ls[start].s = "" \/ linkId = ""
             THEN LinksFrom(ls, starts, li + 1)
             ELSE <<link>> \o LinksFrom(ls, starts, li + 1)

parseLinkSubBlocks(lsaLines) == LinksFrom(lsaLines, LinkStartIndices(lsaLines, 1), 1)

(***************************************************************************)
(* Field extractors                                                        *)
(***************************************************************************)
HasLine(ls, k) == \E i \in DOMAIN ls : ls[i].k = k

\* RouterLSAsFrom with the Link State ID preferred to the Advertising Router.
RECURSIVE RouterLSAsFromLinkStateIdFirst(_, _)
RouterLSAsFromLinkStateIdFirst(blocks, i) ==
  IF i > Len(blocks) THEN << >>
  ELSE LET b == blocks[i]
           routerId == LastS(b.lines, "lsid", "")
           advertisingRouter == LastS(b.lines, "adv", "")
           finalRouterId == IF routerId # "" THEN routerId ELSE advertisingRouter
           rec == [routerId  |-> finalRouterId,
                   area      |-> CurrentArea(blocks, i),
                   age       |-> AgeOf(b.lines),
                   seqNumber |-> LastS(b.lines, "seq", ""),
                   checksum  |-> LastS(b.lines, "cks", ""),
                   isABR     |-> HasLine(b.lines, "abr"),
                   isASBR    |-> HasLine(b.lines, "asbr"),
                   links     |-> parseLinkSubBlocks(b.lines)]
       IN  IF b.isAreaHeader \/ ~HasType(b, TypeRouter) \/ finalRouterId = ""
             THEN RouterLSAsFromLinkStateIdFirst(blocks, i + 1)
             ELSE <<rec>> \o RouterLSAsFromLinkStateIdFirst(blocks, i + 1)

RECURSIVE RouterLSAsFrom(_, _)
RouterLSAsFrom(blocks, i) ==
  IF i > Len(blocks) THEN << >>
  ELSE LET b == blocks[i]
           routerId == LastS(b.lines, "lsid", "")
           advertisingRouter == LastS(b.lines, "adv", "")
           finalRouterId == IF advertisingRouter # "" THEN advertisingRouter ELSE routerId
           rec == [routerId  |-> finalRouterId,
                   area      |-> CurrentArea(blocks, i),
                   age       |-> AgeOf(b.lines),
                   seqNumber |-> LastS(b.lines, "seq", ""),
                   checksum  |-> LastS(b.lines, "cks", ""),
                   isABR     |-> HasLine(b.lines, "abr"),
                   isASBR    |-> HasLine(b.lines, "asbr"),
                   links     |-> parseLinkSubBlocks(b.lines)]
       IN  IF b.isAreaHeader \/ ~HasType(b, TypeRouter) \/ finalRouterId = ""
             THEN RouterLSAsFrom(blocks, i + 1)
             ELSE <<rec>> \o RouterLSAsFrom(blocks, i + 1)

parseRouterLSAs(lines) == RouterLSAsFrom(splitLSABlocks(lines), 1)

RECURSIVE AttachedRouters(_, _)
AttachedRouters(ls, i) ==
  IF i > Len(ls) THEN << >>
  ELSE IF ls[i].k = "attached" THEN <<ls[i].s>> \o AttachedRouters(ls, i + 1)
  ELSE AttachedRouters(ls, i + 1)

RECURSIVE NetworkLSAsFrom(_, _)
NetworkLSAsFrom(blocks, i) ==
  IF i > Len(blocks) THEN << >>
  ELSE LET b == blocks[i]
           linkStateId == LastS(b.lines, "lsid", "")
           rec == [linkStateId       |-> linkStateId,
                   advertisingRouter |-> LastS(b.lines, "adv", ""),
                   area              |-> CurrentArea(blocks, i),
                   age               |-> AgeOf(b.lines),
                   seqNumber         |-> LastS(b.lines, "seq", ""),
                   checksum          |-> LastS(b.lines, "cks", ""),
                   networkMask       |-> LastS(b.lines, "mask", ""),
                   attachedRouters   |-> AttachedRouters(b.lines, 1)]
       IN  IF b.isAreaHeader \/ ~HasType(b, TypeNetwork) \/ linkStateId = ""
             THEN NetworkLSAsFrom(blocks, i + 1)
             ELSE <<rec>> \o NetworkLSAsFrom(blocks, i + 1)

parseNetworkLSAs(lines) == NetworkLSAsFrom(splitLSABlocks(lines), 1)

RECURSIVE SummaryLSAsFrom(_, _)
SummaryLSAsFrom(blocks, i) ==
  IF i > Len(blocks) THEN << >>
  ELSE LET b == blocks[i]
           isType3 == HasType(b, TypeSum3)
           isType4 == HasType(b, TypeSum4)
           network == LastS(b.lines, "lsid", "")
           advertisingRouter == LastS(b.lines, "adv", "")
           rec == [network           |-> network,
                   mask              |-> LastS(b.lines, "mask", ""),
                   cost              |-> MetricFrom(b.lines, 1, 0),
                   area              |-> CurrentArea(blocks, i),
                   lsaType           |-> IF isType4 THEN LsaSum4 ELSE LsaSum3,
                   advertisingRouter |-> advertisingRouter,
                   seqNumber         |-> LastS(b.lines, "seq", ""),
                   age               |-> AgeOf(b.lines)]
       IN  IF b.isAreaHeader \/ (~isType3 /\ ~isType4)
              \/ network = "" \/ advertisingRouter = ""
             THEN SummaryLSAsFrom(blocks, i + 1)
             ELSE <<rec>> \o SummaryLSAsFrom(blocks, i + 1)

parseSummaryLSAs(lines) == SummaryLSAsFrom(splitLSABlocks(lines), 1)

RECURSIVE LastN(_, _, _)
LastN(ls, k, d) ==
  IF ls = << >> THEN d
  ELSE LET l == ls[Len(ls)] IN
       IF l.k = k THEN l.n ELSE LastN(SubSeq(ls, 1, Len(ls) - 1), k, d)

RECURSIVE ExternalLSAsFrom(_, _)
ExternalLSAsFrom(blocks, i) ==
  IF i > Len(blocks) THEN << >>
  ELSE LET b == blocks[i]
           network == LastS(b.lines, "lsid", "")
           advertisingRouter == LastS(b.lines, "adv", "")
           rec == [network           |-> network,
                   mask              |-> LastS(b.lines, "mask", ""),
                   metric            |-> MetricFrom(b.lines, 1, 0),
                   metricType        |-> IF LastN(b.lines, "mtype", 2) = 1 THEN 1 ELSE 2,
                   tag               |-> LastN(b.lines, "tag", 0),
                   forwardingAddress |-> LastS(b.lines, "fwd", ""),
                   advertisingRouter |-> advertisingRouter,
                   seqNumber         |-> LastS(b.lines, "seq", ""),
                   age               |-> AgeOf(b.lines)]
       IN  IF b.isAreaHeader \/ ~HasType(b, TypeExt)
              \/ network = "" \/ advertisingRouter = ""
             THEN ExternalLSAsFrom(blocks, i + 1)
             ELSE <<rec>> \o ExternalLSAsFrom(blocks, i + 1)

parseExternalLSAs(lines) == ExternalLSAsFrom(splitLSABlocks(lines), 1)

(***************************************************************************)
(* Auxiliary command parsers. An optional value (OSPFProcessInfo |         *)
(* undefined, current | null) is a list of no or one element.              *)
(***************************************************************************)
\* multi.field ? parse(multi.field) : default. undefined and "" are falsy.
Present(f) == f # Undefined /\ ~(Len(f) = 1 /\ f[1].k = "other" /\ f[1].s = "")

parseShowIpOspf(text) ==
  LET processId == LastS(text, "pid", "")
      routerId  == LastS(text, "rid", "")
  IN  IF processId = "" /\ routerId = "" THEN << >>
      ELSE <<[processId           |-> processId,
              routerId            |-> routerId,
              numberOfAreas       |-> LastN(text, "nareas", UndefNum),
              referencesBandwidth |-> LastN(text, "refbw", UndefNum)]>>

RECURSIVE NeighborEntriesFrom(_, _)
NeighborEntriesFrom(ls, i) ==
  IF i > Len(ls) THEN << >>
  ELSE (IF ls[i].k = "nbr"
          THEN <<[neighborId |-> ls[i].s, priority |-> ls[i].n, state |-> ls[i].state,
                  deadTime |-> ls[i].deadTime, address |-> ls[i].address,
                  interface |-> ls[i].interface]>>
          ELSE << >>)
       \o NeighborEntriesFrom(ls, i + 1)

parseShowIpOspfNeighbor(text) == NeighborEntriesFrom(text, 1)

\* A Partial<OSPFInterface> with every field undefined.
NoDetail ==
  [ifName |-> Undef, address |-> Undef, area |-> Undef, cost |-> UndefNum,
   linkType |-> Undef, state |-> Undef, drAddress |-> Undef, bdrAddress |-> Undef,
   helloInterval |-> UndefNum, deadInterval |-> UndefNum, connectedTo |-> Undef]

\* if (current && (current.ifName || current.address)) result.push(current)
FlushDetail(result, current) ==
  IF current # << >> /\ (Truthy(current[1].ifName) \/ Truthy(current[1].address))
    THEN Append(result, current[1])
    ELSE result

\* nt.includes("POINT"), nt.includes("TRANSIT") || nt.includes("BROADCAST")
NetTypeOf(nt) ==
  IF nt \in {"POINT_TO_POINT", "POINT_TO_MULTIPOINT"} THEN "point-to-point"
  ELSE IF nt \in {"BROADCAST", "NON_BROADCAST", "TRANSIT"} THEN "transit"
  ELSE "stub"

\* /Designated Router.*?Interface address\s+([\d.]+)/i is not anchored: it
\* matches the "Backup Designated Router" line as well.
MatchesDr(l) == l.k \in {"dr", "bdr"}

\* One pass of the loop over the lines; st = [result, current].
IfaceStep(st, l) ==
  IF l.k = "ifstart"
    THEN [result  |-> FlushDetail(st.result, st.current),
          current |-> <<[NoDetail EXCEPT !.ifName = l.s]>>]
  ELSE IF st.current = << >> THEN st
  ELSE LET cur == st.current[1]
           new == IF l.k = "ifaddr" THEN [cur EXCEPT !.address = l.s, !.area = l.area]
                  ELSE IF l.k = "cost" THEN [cur EXCEPT !.cost = l.n]
                  ELSE IF l.k = "nettype" THEN [cur EXCEPT !.linkType = NetTypeOf(l.s)]
                  ELSE IF l.k = "state" THEN [cur EXCEPT !.state = l.s]
                  ELSE IF MatchesDr(l) THEN [cur EXCEPT !.drAddress = l.s]
                  ELSE IF l.k = "bdr" THEN [cur EXCEPT !.bdrAddress = l.s]
                  ELSE IF l.k = "timer"
                    THEN [cur EXCEPT !.helloInterval = l.n, !.deadInterval = l.dead]
                  ELSE cur
       IN  [result |-> st.result, current |-> <<new>>]

RECURSIVE IfaceFrom(_, _, _)
IfaceFrom(st, ls, i) ==
  IF i > Len(ls) THEN st ELSE IfaceFrom(IfaceStep(st, ls[i]), ls, i + 1)

parseShowIpOspfInterface(text) ==
  LET st == IfaceFrom([result |-> << >>, current |-> << >>], text, 1)
  IN  FlushDetail(st.result, st.current)

RECURSIVE LearnedRoutesFrom(_, _)
LearnedRoutesFrom(ls, i) ==
  IF i > Len(ls) THEN << >>
  ELSE (IF ls[i].k = "route"
          THEN <<[prefix |-> ls[i].s, routeType |-> ls[i].routeType, metric |-> ls[i].n,
                  nextHop |-> ls[i].nextHop, outInterface |-> ls[i].outInterface,
                  tag |-> UndefNum]>>
          ELSE << >>)
       \o LearnedRoutesFrom(ls, i + 1)

parseShowIpRouteOspf(text) == LearnedRoutesFrom(text, 1)

(***************************************************************************)
(* Topology assembler: router registry                                     *)
(***************************************************************************)
HasRouter(rm, rid) == \E i \in DOMAIN rm : rm[i].id = rid

GetRouter(rm, rid) == rm[CHOOSE i \in DOMAIN rm : rm[i].id = rid]

\* Writing through the object reference held by the Map.
SetRouter(rm, r) == [i \in DOMAIN rm |-> IF rm[i].id = r.id THEN r ELSE rm[i]]

BareRouter(rid, area) ==
  [id |-> rid, role |-> "internal", area |-> area, lsaTypes |-> << >>,
   neighbors |-> << >>, neighborInterfaces |-> << >>, interfaces |-> << >>,
   networks |-> << >>, stubNetworks |-> << >>, summaryRoutes |-> << >>,
   externalRoutes |-> << >>, neighborEntries |-> << >>, learnedRoutes |-> << >>,
   processInfo |-> << >>, sequenceNumber |-> Undef, age |-> UndefNum,
   checksum |-> Undef]

ensureRouter(rm, rid, area) ==
  IF HasRouter(rm, rid) THEN rm ELSE Append(rm, BareRouter(rid, area))

\* router.neighborInterfaces[nb] is set (the stored addresses are never "").
HasNbIf(r, nb) == \E i \in DOMAIN r.neighborInterfaces : r.neighborInterfaces[i].nb = nb

AddInterface(r, address, connectedTo, linkType, cost) ==
  [r EXCEPT !.interfaces =
     Append(@, [NoDetail EXCEPT !.address = address, !.connectedTo = connectedTo,
                                !.linkType = linkType, !.cost = cost])]

(***************************************************************************)
(* Step 1: fold one Router LSA (role, freshness fields)                    *)
(***************************************************************************)
\* CreationRole that lets the ABR marker win when both markers are present.
CreationRoleAbrFirst(lsa) ==
  IF lsa.isABR THEN "abr"
  ELSE IF lsa.isASBR THEN "asbr"
  ELSE "internal"

CreationRole(lsa) ==
  IF lsa.isABR /\ lsa.isASBR THEN "asbr"
  ELSE IF lsa.isABR THEN "abr"
  ELSE IF lsa.isASBR THEN "asbr"
  ELSE "internal"

\* UpdatedRole that sets abr without looking at the role the router has.
UpdatedRoleOverwrites(role, lsa) ==
  LET r1 == IF lsa.isABR THEN "abr" ELSE role
  IN  IF lsa.isASBR /\ r1 = "internal" THEN "asbr" ELSE r1

UpdatedRole(role, lsa) ==
  LET r1 == IF lsa.isABR /\ role = "internal" THEN "abr" ELSE role
  IN  IF lsa.isASBR THEN "asbr" ELSE r1

FoldRouterHeader(rm, lsa) ==
  IF ~HasRouter(rm, lsa.routerId)
    THEN Append(rm, [BareRouter(lsa.routerId, lsa.area) EXCEPT
                       !.role = CreationRole(lsa),
                       !.lsaTypes = <<LsaRouter>>,
                       !.sequenceNumber = lsa.seqNumber,
                       !.age = lsa.age,
                       !.checksum = lsa.checksum])
    ELSE LET e == GetRouter(rm, lsa.routerId) IN
         SetRouter(rm, [e EXCEPT
           !.role = UpdatedRole(e.role, lsa),
           !.lsaTypes = PushNew(@, LsaRouter),
           !.sequenceNumber = IF @ \in {Undef, ""} THEN lsa.seqNumber ELSE @,
           !.age = IF @ \in {UndefNum, 0} THEN lsa.age ELSE @,
           !.checksum = IF @ \in {Undef, ""} THEN lsa.checksum ELSE @])

(***************************************************************************)
(* Step 2: fold the link descriptors of one Router LSA                     *)
(***************************************************************************)
\* [rid, link.linkId].sort().join("|"): equal exactly for equal unordered pairs.
PairKey(a, b) == {a, b}

HasP2P(pc, key) == \E i \in DOMAIN pc : pc[i].key = key

\* FoldP2PCost with the two sides of an existing entry exchanged.
FoldP2PCostSwapped(pc, rid, area, link) ==
  LET key == PairKey(rid, link.linkId) IN
  IF HasP2P(pc, key)
    THEN [i \in DOMAIN pc |->
            IF pc[i].key # key THEN pc[i]
            ELSE IF rid = pc[i].srcId
              THEN [pc[i] EXCEPT !.tgtCost = link.metric]
              ELSE [pc[i] EXCEPT !.srcCost = link.metric]]
    ELSE Append(pc, [key |-> key, srcId |-> rid, tgtId |-> link.linkId,
                     srcCost |-> link.metric, tgtCost |-> link.metric,
                     ifInfo |-> link.linkData, area |-> area])

\* FoldP2PCost leaving the far side's cost at 0 until the far side announces.
FoldP2PCostTargetUnset(pc, rid, area, link) ==
  LET key == PairKey(rid, link.linkId) IN
  IF HasP2P(pc, key)
    THEN [i \in DOMAIN pc |->
            IF pc[i].key # key THEN pc[i]
            ELSE IF rid = pc[i].srcId
              THEN [pc[i] EXCEPT !.srcCost = link.metric,
                                 !.ifInfo = IF link.linkData # "" THEN link.linkData ELSE @]
              ELSE [pc[i] EXCEPT !.tgtCost = link.metric]]
    ELSE Append(pc, [key |-> key, srcId |-> rid, tgtId |-> link.linkId,
                     srcCost |-> link.metric, tgtCost |-> 0,
                     ifInfo |-> link.linkData, area |-> area])

FoldP2PCost(pc, rid, area, link) ==
  LET key == PairKey(rid, link.linkId) IN
  IF HasP2P(pc, key)
    THEN [i \in DOMAIN pc |->
            IF pc[i].key # key THEN pc[i]
            ELSE IF rid = pc[i].srcId
              THEN [pc[i] EXCEPT !.srcCost = link.metric,
                                 !.ifInfo = IF link.linkData # "" THEN link.linkData ELSE @]
              ELSE [pc[i] EXCEPT !.tgtCost = link.metric]]
    ELSE Append(pc, [key |-> key, srcId |-> rid, tgtId |-> link.linkId,
                     srcCost |-> link.metric, tgtCost |-> link.metric,
                     ifInfo |-> link.linkData, area |-> area])

\* FoldLinkRouter pushing a stub link's label and network id unconditionally.
FoldLinkRouterStubAlwaysPushes(r, link) ==
  IF link.type = "point-to-point" THEN
    LET r1 == [r EXCEPT !.neighbors = PushNew(@, link.linkId)]
        r2 == IF link.linkData # "" /\ ~HasNbIf(r1, link.linkId)
                THEN [r1 EXCEPT !.neighborInterfaces =
                        Append(@, [nb |-> link.linkId, addr |-> link.linkData])]
                ELSE r1
    IN  IF link.linkData # "" /\ ~\E i \in DOMAIN r2.interfaces :
             r2.interfaces[i].address = link.linkData
             /\ r2.interfaces[i].connectedTo = link.linkId
          THEN AddInterface(r2, link.linkData, link.linkId, "point-to-point", link.metric)
          ELSE r2
  ELSE IF link.type = "stub" THEN
    LET stubLabel == IF link.linkData # "" THEN <<link.linkId, "/", link.linkData>>
                     ELSE <<link.linkId>>
        netId == <<"stub", link.linkId, link.linkData>>
        r1 == [r EXCEPT !.stubNetworks = Append(@, stubLabel),
                        !.networks = Append(@, netId)]
    IN  IF link.linkData # "" /\ ~\E i \in DOMAIN r1.interfaces :
             r1.interfaces[i].connectedTo = link.linkId
             /\ r1.interfaces[i].linkType = "stub"
          THEN AddInterface(r1, link.linkData, link.linkId, "stub", link.metric)
          ELSE r1
  ELSE
    LET r1 == [r EXCEPT !.networks = PushNew(@, <<link.linkId>>)]
    IN  IF link.linkData # "" /\ ~\E i \in DOMAIN r1.interfaces :
             r1.interfaces[i].address = link.linkData
             /\ r1.interfaces[i].connectedTo = link.linkId
          THEN AddInterface(r1, link.linkData, link.linkId, "transit", link.metric)
          ELSE r1

FoldLinkRouter(r, link) ==
  IF link.type = "point-to-point" THEN
    LET r1 == [r EXCEPT !.neighbors = PushNew(@, link.linkId)]
        r2 == IF link.linkData # "" /\ ~HasNbIf(r1, link.linkId)
                THEN [r1 EXCEPT !.neighborInterfaces =
                        Append(@, [nb |-> link.linkId, addr |-> link.linkData])]
                ELSE r1
    IN  IF link.linkData # "" /\ ~\E i \in DOMAIN r2.interfaces :
             r2.interfaces[i].address = link.linkData
             /\ r2.interfaces[i].connectedTo = link.linkId
          THEN AddInterface(r2, link.linkData, link.linkId, "point-to-point", link.metric)
          ELSE r2
  ELSE IF link.type = "stub" THEN
    LET stubLabel == IF link.linkData # "" THEN <<link.linkId, "/", link.linkData>>
                     ELSE <<link.linkId>>
        netId == <<"stub", link.linkId, link.linkData>>
        r1 == [r EXCEPT !.stubNetworks = PushNew(@, stubLabel),
                        !.networks = PushNew(@, netId)]
    IN  IF link.linkData # "" /\ ~\E i \in DOMAIN r1.interfaces :
             r1.interfaces[i].connectedTo = link.linkId
             /\ r1.interfaces[i].linkType = "stub"
          THEN AddInterface(r1, link.linkData, link.linkId, "stub", link.metric)
          ELSE r1
  ELSE
    LET r1 == [r EXCEPT !.networks = PushNew(@, <<link.linkId>>)]
    IN  IF link.linkData # "" /\ ~\E i \in DOMAIN r1.interfaces :
             r1.interfaces[i].address = link.linkData
             /\ r1.interfaces[i].connectedTo = link.linkId
          THEN AddInterface(r1, link.linkData, link.linkId, "transit", link.metric)
          ELSE r1

\* st = [routerMap, p2pCosts]
RECURSIVE FoldLinks(_, _, _, _)
FoldLinks(st, lsa, links, j) ==
  IF j > Len(links) THEN st
  ELSE LET link == links[j]
           r    == FoldLinkRouter(GetRouter(st.routerMap, lsa.routerId), link)
       IN  FoldLinks([routerMap |-> SetRouter(st.routerMap, r),
                      p2pCosts  |-> IF link.type = "point-to-point"
                                      THEN FoldP2PCost(st.p2pCosts, lsa.routerId, lsa.area, link)
                                      ELSE st.p2pCosts],
                     lsa, links, j + 1)

(***************************************************************************)
(* Step 3: materialize one Link per entry of the pending P2P cost table    *)
(***************************************************************************)
Max(a, b) == IF a >= b THEN a ELSE b

\* P2PLink whose cost is the source's cost instead of the maximum.
P2PLinkSourceCost(p) ==
  [id |-> <<"p2p", p.srcId, p.tgtId>>, source |-> p.srcId, target |-> p.tgtId,
   cost |-> p.srcCost, sourceCost |-> p.srcCost,
   targetCost |-> p.tgtCost, linkType |-> "point-to-point",
   interfaceInfo |-> p.ifInfo, area |-> p.area]

P2PLink(p) ==
  [id |-> <<"p2p", p.srcId, p.tgtId>>, source |-> p.srcId, target |-> p.tgtId,
   cost |-> Max(p.srcCost, p.tgtCost), sourceCost |-> p.srcCost,
   targetCost |-> p.tgtCost, linkType |-> "point-to-point",
   interfaceInfo |-> p.ifInfo, area |-> p.area]

\* The neighbor lists, neighbor-interface maps and target interface of one entry.
P2PRouters(rm, p) ==
  LET rm0 == ensureRouter(ensureRouter(rm, p.srcId, p.area), p.tgtId, p.area)
      s1  == GetRouter(rm0, p.srcId)
      rm1 == SetRouter(rm0, [s1 EXCEPT !.neighbors = PushNew(@, p.tgtId)])
      t1  == GetRouter(rm1, p.tgtId)
      rm2 == SetRouter(rm1, [t1 EXCEPT !.neighbors = PushNew(@, p.srcId)])
      s2  == GetRouter(rm2, p.srcId)
      rm3 == IF p.ifInfo # "" /\ ~HasNbIf(s2, p.tgtId)
               THEN SetRouter(rm2, [s2 EXCEPT !.neighborInterfaces =
                      Append(@, [nb |-> p.tgtId, addr |-> p.ifInfo])])
               ELSE rm2
      t2  == GetRouter(rm3, p.tgtId)
      rm4 == IF p.ifInfo # "" /\ ~HasNbIf(t2, p.srcId)
               THEN SetRouter(rm3, [t2 EXCEPT !.neighborInterfaces =
                      Append(@, [nb |-> p.srcId, addr |-> p.ifInfo])])
               ELSE rm3
      t3  == GetRouter(rm4, p.tgtId)
  IN  IF p.ifInfo # "" /\ ~\E i \in DOMAIN t3.interfaces :
           t3.interfaces[i].connectedTo = p.srcId
           /\ t3.interfaces[i].linkType = "point-to-point"
        THEN SetRouter(rm4, AddInterface(t3, p.ifInfo, p.srcId, "point-to-point", p.tgtCost))
        ELSE rm4

\* st = [routerMap, links]
RECURSIVE BuildP2PLinks(_, _, _)
BuildP2PLinks(st, pc, j) ==
  IF j > Len(pc) THEN st
  ELSE BuildP2PLinks([routerMap |-> P2PRouters(st.routerMap, pc[j]),
                      links     |-> Append(st.links, P2PLink(pc[j]))],
                     pc, j + 1)

(***************************************************************************)
(* Step 4: fold one Network LSA                                            *)
(***************************************************************************)
\* NetworkOf keyed by the advertising router instead of the Link State ID.
NetworkOfAdvertiser(nlsa) ==
  [id |-> nlsa.advertisingRouter, networkAddress |-> nlsa.linkStateId,
   mask |-> nlsa.networkMask, attachedRouters |-> nlsa.attachedRouters,
   designatedRouter |-> nlsa.advertisingRouter, area |-> nlsa.area]

NetworkOf(nlsa) ==
  [id |-> nlsa.linkStateId, networkAddress |-> nlsa.linkStateId,
   mask |-> nlsa.networkMask, attachedRouters |-> nlsa.attachedRouters,
   designatedRouter |-> nlsa.advertisingRouter, area |-> nlsa.area]

\* SetNetwork that adds an entry even when the key is present.
SetNetworkAppends(nm, n) == Append(nm, n)

\* Map.set: a present key keeps its position and takes the new value.
SetNetwork(nm, n) ==
  IF \E i \in DOMAIN nm : nm[i].id = n.id
    THEN [i \in DOMAIN nm |-> IF nm[i].id = n.id THEN n ELSE nm[i]]
    ELSE Append(nm, n)

TransitLink(nlsa, ar) ==
  [id |-> <<"transit", nlsa.linkStateId, ar>>, source |-> nlsa.linkStateId,
   target |-> ar, cost |-> 0, sourceCost |-> 0, targetCost |-> 0,
   linkType |-> "transit", interfaceInfo |-> Undef, area |-> nlsa.area]

\* AttachRouters that leaves the routers' networks lists alone.
RECURSIVE AttachRoutersNoNetworkId(_, _, _)
AttachRoutersNoNetworkId(st, nlsa, j) ==
  IF j > Len(nlsa.attachedRouters) THEN st
  ELSE LET ar  == nlsa.attachedRouters[j]
           rm0 == ensureRouter(st.routerMap, ar, nlsa.area)
           r0  == GetRouter(rm0, ar)
           r2  == IF ar = nlsa.advertisingRouter
                    THEN [r0 EXCEPT !.lsaTypes = PushNew(@, LsaNetwork)]
                    ELSE r0
       IN  AttachRoutersNoNetworkId([routerMap |-> SetRouter(rm0, r2),
                                     links     |-> Append(st.links, TransitLink(nlsa, ar))],
                                    nlsa, j + 1)

\* st = [routerMap, links]
RECURSIVE AttachRouters(_, _, _)
AttachRouters(st, nlsa, j) ==
  IF j > Len(nlsa.attachedRouters) THEN st
  ELSE LET ar  == nlsa.attachedRouters[j]
           rm0 == ensureRouter(st.routerMap, ar, nlsa.area)
           r0  == GetRouter(rm0, ar)
           r1  == [r0 EXCEPT !.networks = PushNew(@, <<nlsa.linkStateId>>)]
           r2  == IF ar = nlsa.advertisingRouter
                    THEN [r1 EXCEPT !.lsaTypes = PushNew(@, LsaNetwork)]
                    ELSE r1
       IN  AttachRouters([routerMap |-> SetRouter(rm0, r2),
                          links     |-> Append(st.links, TransitLink(nlsa, ar))],
                         nlsa, j + 1)

(***************************************************************************)
(* Step 5: bidirectional neighbor enforcement                              *)
(***************************************************************************)
\* Reciprocate with an assignment in place of the push.
RECURSIVE ReciprocateAssign(_, _, _, _)
ReciprocateAssign(rm, rid, nbs, j) ==
  IF j > Len(nbs) THEN rm
  ELSE LET rm0 == ensureRouter(rm, nbs[j], GetRouter(rm, rid).area)
           nb  == GetRouter(rm0, nbs[j])
       IN  ReciprocateAssign(SetRouter(rm0, [nb EXCEPT !.neighbors = <<rid>>]),
                             rid, nbs, j + 1)

RECURSIVE Reciprocate(_, _, _, _)
Reciprocate(rm, rid, nbs, j) ==
  IF j > Len(nbs) THEN rm
  ELSE LET rm0 == ensureRouter(rm, nbs[j], GetRouter(rm, rid).area)
           nb  == GetRouter(rm0, nbs[j])
       IN  Reciprocate(SetRouter(rm0, [nb EXCEPT !.neighbors = PushNew(@, rid)]),
                       rid, nbs, j + 1)

\* ids: the routers of the snapshot Array.from(routerMap.values()).
RECURSIVE EnforceBidirectional(_, _, _)
EnforceBidirectional(rm, ids, k) ==
  IF k > Len(ids) THEN rm
  ELSE EnforceBidirectional(
         Reciprocate(rm, ids[k], GetRouter(rm, ids[k]).neighbors, 1), ids, k + 1)

(***************************************************************************)
(* Step 6: attach one Summary LSA, one External LSA                        *)
(***************************************************************************)
\* AttachSummaryLSA that marks the advertiser of a Type-4 LSA abr whatever its role.
AttachSummaryLSAOverwrites(rm, s) ==
  LET rm0 == ensureRouter(rm, s.advertisingRouter, s.area)
      r   == GetRouter(rm0, s.advertisingRouter)
  IN  SetRouter(rm0, [r EXCEPT
        !.lsaTypes = PushNew(@, s.lsaType),
        !.role = IF s.lsaType = LsaSum4 THEN "abr" ELSE @,
        !.summaryRoutes = Append(@, s)])

AttachSummaryLSA(rm, s) ==
  LET rm0 == ensureRouter(rm, s.advertisingRouter, s.area)
      r   == GetRouter(rm0, s.advertisingRouter)
  IN  SetRouter(rm0, [r EXCEPT
        !.lsaTypes = PushNew(@, s.lsaType),
        !.role = IF s.lsaType = LsaSum4 /\ @ = "internal" THEN "abr" ELSE @,
        !.summaryRoutes = Append(@, s)])

\* AttachExternalLSA that skips a record the router already holds.
AttachExternalLSAOnce(rm, e) ==
  LET rm0 == ensureRouter(rm, e.advertisingRouter, "0")
      r   == GetRouter(rm0, e.advertisingRouter)
  IN  SetRouter(rm0, [r EXCEPT
        !.lsaTypes = PushNew(@, LsaExt),
        !.role = IF @ = "internal" THEN "asbr" ELSE @,
        !.externalRoutes = PushNew(@, e)])

\* AttachExternalLSA that marks the advertiser asbr whatever its role.
AttachExternalLSAOverwrites(rm, e) ==
  LET rm0 == ensureRouter(rm, e.advertisingRouter, "0")
      r   == GetRouter(rm0, e.advertisingRouter)
  IN  SetRouter(rm0, [r EXCEPT
        !.lsaTypes = PushNew(@, LsaExt),
        !.role = "asbr",
        !.externalRoutes = Append(@, e)])

\* AttachExternalLSA that leaves every role alone.
AttachExternalLSAKeepsRole(rm, e) ==
  LET rm0 == ensureRouter(rm, e.advertisingRouter, "0")
      r   == GetRouter(rm0, e.advertisingRouter)
  IN  SetRouter(rm0, [r EXCEPT
        !.lsaTypes = PushNew(@, LsaExt),
        !.externalRoutes = Append(@, e)])

AttachExternalLSA(rm, e) ==
  LET rm0 == ensureRouter(rm, e.advertisingRouter, "0")
      r   == GetRouter(rm0, e.advertisingRouter)
  IN  SetRouter(rm0, [r EXCEPT
        !.lsaTypes = PushNew(@, LsaExt),
        !.role = IF @ = "internal" THEN "asbr" ELSE @,
        !.externalRoutes = Append(@, e)])

(***************************************************************************)
(* Step 7: attach the auxiliary command data                               *)
(***************************************************************************)
findRouterByInterface(rm, address) ==
  LET hits == {k \in DOMAIN rm : \E i \in DOMAIN rm[k].interfaces :
                                    rm[k].interfaces[i].address = address}
  IN  IF hits = {} THEN << >>
      ELSE <<rm[CHOOSE k \in hits : \A h \in hits : k <= h]>>

\* AttachNeighborEntry that creates the router a neighbor entry names.
AttachNeighborEntryEnsures(rm, ne) ==
  LET rm0   == ensureRouter(rm, ne.neighborId, "0")
      found == <<GetRouter(rm0, ne.neighborId)>>
  IN  IF ~\E i \in DOMAIN found[1].neighborEntries :
               found[1].neighborEntries[i].neighborId = ne.neighborId
               /\ found[1].neighborEntries[i].interface = ne.interface
        THEN SetRouter(rm0, [found[1] EXCEPT !.neighborEntries = Append(@, ne)])
        ELSE rm0

AttachNeighborEntry(rm, ne) ==
  LET found == IF HasRouter(rm, ne.neighborId) THEN <<GetRouter(rm, ne.neighborId)>>
               ELSE findRouterByInterface(rm, ne.address)
  IN  IF found # << >>
         /\ ~\E i \in DOMAIN found[1].neighborEntries :
               found[1].neighborEntries[i].neighborId = ne.neighborId
               /\ found[1].neighborEntries[i].interface = ne.interface
        THEN SetRouter(rm, [found[1] EXCEPT !.neighborEntries = Append(@, ne)])
        ELSE rm

RECURSIVE AttachNeighborEntries(_, _, _)
AttachNeighborEntries(rm, nes, j) ==
  IF j > Len(nes) THEN rm
  ELSE AttachNeighborEntries(AttachNeighborEntry(rm, nes[j]), nes, j + 1)

IfaceMatches(iface, detail) ==
  iface.address = detail.address \/ iface.connectedTo = detail.connectedTo

EnrichInterface(iface, detail) ==
  [iface EXCEPT !.ifName = detail.ifName,
                !.state = detail.state,
                !.drAddress = detail.drAddress,
                !.bdrAddress = detail.bdrAddress,
                !.helloInterval = detail.helloInterval,
                !.deadInterval = detail.deadInterval,
                !.area = detail.area,
                !.cost = IF detail.cost > 0 /\ @ = 0 THEN detail.cost ELSE @]

\* The first router with a matching interface has its first matching interface
\* enriched; then break.
EnrichWithDetail(rm, detail) ==
  LET hits == {k \in DOMAIN rm : \E i \in DOMAIN rm[k].interfaces :
                                    IfaceMatches(rm[k].interfaces[i], detail)}
  IN  IF hits = {} THEN rm
      ELSE LET k  == CHOOSE k \in hits : \A h \in hits : k <= h
               is == {i \in DOMAIN rm[k].interfaces : IfaceMatches(rm[k].interfaces[i], detail)}
               i  == CHOOSE i \in is : \A h \in is : i <= h
           IN  [rm EXCEPT ![k].interfaces[i] = EnrichInterface(@, detail)]

RECURSIVE EnrichInterfaces(_, _, _)
EnrichInterfaces(rm, details, j) ==
  IF j > Len(details) THEN rm
  ELSE EnrichInterfaces(EnrichWithDetail(rm, details[j]), details, j + 1)

\* processInfo?.routerId ? routerMap.get(...) : routers.find(r => r.lsaTypes.length > 0)
LearnedRoutesOwner(rm, processInfo) ==
  IF processInfo # << >> /\ processInfo[1].routerId # ""
    THEN (IF HasRouter(rm, processInfo[1].routerId)
            THEN <<GetRouter(rm, processInfo[1].routerId)>> ELSE << >>)
    ELSE LET hits == {k \in DOMAIN rm : Len(rm[k].lsaTypes) > 0}
         IN  IF hits = {} THEN << >>
             ELSE <<rm[CHOOSE k \in hits : \A h \in hits : k <= h]>>

AttachLearnedRoutes(rm, processInfo, learnedRoutes) ==
  LET owner == LearnedRoutesOwner(rm, processInfo)
  IN  IF Len(learnedRoutes) > 0 /\ owner # << >>
        THEN SetRouter(rm, [owner[1] EXCEPT !.learnedRoutes = learnedRoutes])
        ELSE rm

AttachProcessInfo(rm, processInfo) ==
  IF processInfo # << >> /\ HasRouter(rm, processInfo[1].routerId)
    THEN SetRouter(rm, [GetRouter(rm, processInfo[1].routerId) EXCEPT
                          !.processInfo = processInfo])
    ELSE rm

(***************************************************************************)
(* Step 8: deduplication of the link set, and the returned Topology        *)
(***************************************************************************)
LinkKey(l) == <<PairKey(l.source, l.target), l.linkType>>

MergeLink(existing, link) ==
  [existing EXCEPT
     !.cost = IF link.cost > 0 /\ @ = 0 THEN link.cost ELSE @,
     !.sourceCost = IF link.sourceCost > 0 /\ @ = 0 THEN link.sourceCost ELSE @,
     !.targetCost = IF link.targetCost > 0 /\ @ = 0 THEN link.targetCost ELSE @,
     !.interfaceInfo = IF Truthy(link.interfaceInfo) /\ ~Truthy(@)
                         THEN link.interfaceInfo ELSE @]

RECURSIVE DedupFrom(_, _, _)
DedupFrom(links, j, seen) ==
  IF j > Len(links) THEN seen
  ELSE LET link == links[j] IN
       IF \E i \in DOMAIN seen : LinkKey(seen[i]) = LinkKey(link)
         THEN DedupFrom(links, j + 1,
                [i \in DOMAIN seen |-> IF LinkKey(seen[i]) = LinkKey(link)
                                         THEN MergeLink(seen[i], link) ELSE seen[i]])
         ELSE DedupFrom(links, j + 1, Append(seen, link))

\* dedup that returns the raw list.
dedupNone(links) == links

dedup(links) == DedupFrom(links, 1, << >>)

\* Code-unit order of the area ids that occur in the inputs (Array.sort()).
AreaOrder == <<"0", "1", "2">>

RECURSIVE SortAreas(_, _)
SortAreas(areas, k) ==
  IF k > Len(AreaOrder) THEN << >>
  ELSE (IF Includes(areas, AreaOrder[k]) THEN <<AreaOrder[k]>> ELSE << >>)
       \o SortAreas(areas, k + 1)

Topology(c) ==
  [routers        |-> c.routerMap,
   networks       |-> c.networkMap,
   links          |-> dedup(c.links),
   areas          |-> SortAreas(c.areas, 1),
   summaryRoutes  |-> c.summaryLSAs,
   externalRoutes |-> c.externalLSAs,
   processInfo    |-> c.processInfo]

(***************************************************************************)
(* Topology differ (lib/topology-diff): previous, current -> Change list.  *)
(* Router changes come first, then link changes, each group by ascending   *)
(* id. An optional value of a Change (link id, old and new value) is << >>  *)
(* or the value, a scalar with its type.                                   *)
(***************************************************************************)
\* Code-unit order of the router and network ids that occur in the inputs.
IdOrder == <<"1.1.1.1", "10.0.1.0", "2.2.2.2", "3.3.3.3">>

LinkTypeOrder == <<"point-to-point", "stub", "transit">>

RECURSIVE SetToSeq(_)
SetToSeq(S) ==
  IF S = {} THEN << >>
  ELSE LET x == CHOOSE x \in S : TRUE IN <<x>> \o SetToSeq(S \ {x})

\* The ids of S in ascending order (ids outside IdOrder last).
SortIds(S) ==
  SelectSeq(IdOrder, LAMBDA x : x \in S)
    \o SetToSeq({x \in S : ~Includes(IdOrder, x)})

Num(n) == <<"number", n>>

Str(x) == <<"string", x>>

Change(type, routerId, linkId, oldValue, newValue) ==
  [type |-> type, routerId |-> routerId, linkId |-> linkId,
   oldValue |-> oldValue, newValue |-> newValue]

\* The changes of router id between the router lists prev and cur.
RouterChange(prev, cur, id) ==
  IF ~HasRouter(prev, id) THEN <<Change("router-added", id, << >>, << >>, << >>)>>
  ELSE IF ~HasRouter(cur, id) THEN <<Change("router-removed", id, << >>, << >>, << >>)>>
  ELSE IF GetRouter(prev, id).area # GetRouter(cur, id).area
    THEN <<Change("area-changed", id, << >>, Str(GetRouter(prev, id).area),
                  Str(GetRouter(cur, id).area))>>
  ELSE << >>

HasLink(links, key) == \E i \in DOMAIN links : LinkKey(links[i]) = key

GetLink(links, key) == links[CHOOSE i \in DOMAIN links : LinkKey(links[i]) = key]

\* LinkChange that compares the old cost with the new source-side cost.
LinkChangeCrossed(prev, cur, key) ==
  IF ~HasLink(prev, key) THEN <<Change("link-added", Undef, key, << >>, << >>)>>
  ELSE IF ~HasLink(cur, key) THEN <<Change("link-removed", Undef, key, << >>, << >>)>>
  ELSE LET o == GetLink(prev, key)
           n == GetLink(cur, key)
       IN  IF o.cost # n.sourceCost \/ o.targetCost # n.targetCost
             THEN <<Change("metric-changed", Undef, key, Num(o.cost), Num(n.cost))>>
             ELSE << >>

\* LinkChange that reports a metric change only when the cost went up.
LinkChangeOnIncrease(prev, cur, key) ==
  IF ~HasLink(prev, key) THEN <<Change("link-added", Undef, key, << >>, << >>)>>
  ELSE IF ~HasLink(cur, key) THEN <<Change("link-removed", Undef, key, << >>, << >>)>>
  ELSE LET o == GetLink(prev, key)
           n == GetLink(cur, key)
       IN  IF o.cost < n.cost
             THEN <<Change("metric-changed", Undef, key, Num(o.cost), Num(n.cost))>>
             ELSE << >>

\* LinkChange that reports the source-side costs as the old and new value.
LinkChangeSourceValues(prev, cur, key) ==
  IF ~HasLink(prev, key) THEN <<Change("link-added", Undef, key, << >>, << >>)>>
  ELSE IF ~HasLink(cur, key) THEN <<Change("link-removed", Undef, key, << >>, << >>)>>
  ELSE LET o == GetLink(prev, key)
           n == GetLink(cur, key)
       IN  IF o.cost # n.cost \/ o.sourceCost # n.sourceCost \/ o.targetCost # n.targetCost
             THEN <<Change("metric-changed", Undef, key, Num(o.sourceCost),
                           Num(n.sourceCost))>>
             ELSE << >>

\* The changes of the link of dedup key key between the link lists prev and cur.
LinkChange(prev, cur, key) ==
  IF ~HasLink(prev, key) THEN <<Change("link-added", Undef, key, << >>, << >>)>>
  ELSE IF ~HasLink(cur, key) THEN <<Change("link-removed", Undef, key, << >>, << >>)>>
  ELSE LET o == GetLink(prev, key)
           n == GetLink(cur, key)
       IN  IF o.cost # n.cost \/ o.sourceCost # n.sourceCost \/ o.targetCost # n.targetCost
             THEN <<Change("metric-changed", Undef, key, Num(o.cost), Num(n.cost))>>
             ELSE << >>

\* The dedup keys of the links of prev and cur, ascending by endpoints then type.
LinkKeysInOrder(prev, cur) ==
  LET all  == Range(prev) \cup Range(cur)
      ids  == SortIds({l.source : l \in all} \cup {l.target : l \in all})
      keys == Flatten([i \in DOMAIN ids |->
                Flatten([j \in DOMAIN ids |->
                  IF j < i THEN << >>
                  ELSE [t \in DOMAIN LinkTypeOrder |->
                          <<PairKey(ids[i], ids[j]), LinkTypeOrder[t]>>]])])
  IN  SelectSeq(keys, LAMBDA k : HasLink(prev, k) \/ HasLink(cur, k))

diffTopologies(prev, cur) ==
  LET rids == SortIds({prev.routers[i].id : i \in DOMAIN prev.routers}
                      \cup {cur.routers[i].id : i \in DOMAIN cur.routers})
      keys == LinkKeysInOrder(prev.links, cur.links)
  IN  Flatten([k \in DOMAIN rids |-> RouterChange(prev.routers, cur.routers, rids[k])])
        \o Flatten([k \in DOMAIN keys |-> LinkChange(prev.links, cur.links, keys[k])])

(***************************************************************************)
(* parseOSPFData: one call is one entry of calls; its locals are fields    *)
(***************************************************************************)
\* multi.raw ?? "", and "".split("\n") = [""]
FieldLines(f) == IF f = Undefined THEN <<EmptyLine>> ELSE f

\* [raw, router, network].join("\n").split("\n")
DbLines(input) ==
  FieldLines(input.raw) \o FieldLines(input.showIpOspfDatabaseRouter)
    \o FieldLines(input.showIpOspfDatabaseNetwork)

\* Locals whose area set starts with the default area.
LocalsWithDefaultArea ==
  [routerMap |-> << >>, networkMap |-> << >>, links |-> << >>, areas |-> <<"0">>,
   p2pCosts |-> << >>]

\* Locals declared at module level: a call starts from what an earlier call left.
HoistedLocals ==
  LET started == {d \in DOMAIN calls : calls[d].pc # "start"} IN
  IF started = {} THEN
    [routerMap |-> << >>, networkMap |-> << >>, links |-> << >>, areas |-> << >>,
     p2pCosts |-> << >>]
  ELSE LET d == CHOOSE d \in started : TRUE IN
    [routerMap |-> calls[d].routerMap, networkMap |-> calls[d].networkMap,
     links |-> calls[d].links, areas |-> calls[d].areas, p2pCosts |-> calls[d].p2pCosts]

\* const routerMap = new Map(), networkMap = new Map(), links = [], areas = new Set(), p2pCosts = new Map()
FreshLocals ==
  [routerMap |-> << >>, networkMap |-> << >>, links |-> << >>, areas |-> << >>,
   p2pCosts |-> << >>]

NoTopology ==
  [routers |-> << >>, networks |-> << >>, links |-> << >>, areas |-> << >>,
   summaryRoutes |-> << >>, externalRoutes |-> << >>, processInfo |-> << >>]

InitCall(input) ==
  [pc |-> "start", input |-> input, i |-> 0,
   routerLSAs |-> << >>, networkLSAs |-> << >>, summaryLSAs |-> << >>,
   externalLSAs |-> << >>,
   processInfo |-> << >>, neighborEntries |-> << >>, ifaceDetails |-> << >>,
   learnedRoutes |-> << >>,
   routerMap |-> << >>, networkMap |-> << >>, links |-> << >>, areas |-> << >>,
   p2pCosts |-> << >>, result |-> NoTopology]

\* parseOSPFData is synchronous: the calls made on one thread of control run
\* one after the other; sched[c] is the thread of call c, and the steps of
\* calls on different threads may alternate.
Runnable(c) ==
  \A d \in 1..(c - 1) : sched[d] = sched[c] => calls[d].pc = "done"

\* The loop that follows phase ph, skipping the loops with nothing to iterate.
AfterRouterLSAs(c) == "p2p"

AfterP2P(c) == IF c.networkLSAs = << >> THEN "bidir" ELSE "networkLSAs"

AfterBidir(c) ==
  IF c.summaryLSAs # << >> THEN "summary"
  ELSE IF c.externalLSAs # << >> THEN "external"
  ELSE "auxiliary"

AfterSummary(c) == IF c.externalLSAs # << >> THEN "external" ELSE "auxiliary"

Extract(c) ==
  /\ calls[c].pc = "start"
  /\ Runnable(c)
  /\ LET lines == DbLines(calls[c].input)
         rl    == parseRouterLSAs(lines)
         in    == calls[c].input
     IN  calls' = [calls EXCEPT ![c] =
           [@ EXCEPT !.routerLSAs = rl,
                     !.networkLSAs = parseNetworkLSAs(lines),
                     !.summaryLSAs = parseSummaryLSAs(lines),
                     !.externalLSAs = parseExternalLSAs(lines),
                     !.processInfo =
                        IF Present(in.showIpOspf)
                          THEN parseShowIpOspf(in.showIpOspf) ELSE << >>,
                     !.neighborEntries =
                        IF Present(in.showIpOspfNeighbor)
                          THEN parseShowIpOspfNeighbor(in.showIpOspfNeighbor) ELSE << >>,
                     !.ifaceDetails =
                        IF Present(in.showIpOspfInterface)
                          THEN parseShowIpOspfInterface(in.showIpOspfInterface) ELSE << >>,
                     !.learnedRoutes =
                        IF Present(in.showIpRouteOspf)
                          THEN parseShowIpRouteOspf(in.showIpRouteOspf) ELSE << >>,
                     !.routerMap = FreshLocals.routerMap,
                     !.networkMap = FreshLocals.networkMap,
                     !.links = FreshLocals.links,
                     !.areas = FreshLocals.areas,
                     !.p2pCosts = FreshLocals.p2pCosts,
                     !.i = 1,
                     !.pc = IF rl = << >> THEN "p2p" ELSE "routerLSAs"]]
  /\ UNCHANGED <<sched, page>>

FoldRouterLSA(c) ==
  /\ calls[c].pc = "routerLSAs"
  /\ Runnable(c)
  /\ LET s   == calls[c]
         lsa == s.routerLSAs[s.i]
         st  == FoldLinks([routerMap |-> FoldRouterHeader(s.routerMap, lsa),
                           p2pCosts  |-> s.p2pCosts], lsa, lsa.links, 1)
     IN  calls' = [calls EXCEPT ![c] =
           [@ EXCEPT !.areas = PushNew(@, lsa.area),
                     !.routerMap = st.routerMap,
                     !.p2pCosts = st.p2pCosts,
                     !.i = IF s.i = Len(s.routerLSAs) THEN 1 ELSE s.i + 1,
                     !.pc = IF s.i = Len(s.routerLSAs) THEN AfterRouterLSAs(s) ELSE @]]
  /\ UNCHANGED <<sched, page>>

BuildP2P(c) ==
  /\ calls[c].pc = "p2p"
  /\ Runnable(c)
  /\ LET s  == calls[c]
         st == BuildP2PLinks([routerMap |-> s.routerMap, links |-> s.links], s.p2pCosts, 1)
     IN  calls' = [calls EXCEPT ![c] =
           [@ EXCEPT !.routerMap = st.routerMap,
                     !.links = st.links,
                     !.i = 1,
                     !.pc = AfterP2P(s)]]
  /\ UNCHANGED <<sched, page>>

FoldNetworkLSA(c) ==
  /\ calls[c].pc = "networkLSAs"
  /\ Runnable(c)
  /\ LET s    == calls[c]
         nlsa == s.networkLSAs[s.i]
         st   == AttachRouters([routerMap |-> s.routerMap, links |-> s.links], nlsa, 1)
     IN  calls' = [calls EXCEPT ![c] =
           [@ EXCEPT !.areas = PushNew(@, nlsa.area),
                     !.networkMap = SetNetwork(@, NetworkOf(nlsa)),
                     !.routerMap = st.routerMap,
                     !.links = st.links,
                     !.i = IF s.i = Len(s.networkLSAs) THEN 1 ELSE s.i + 1,
                     !.pc = IF s.i = Len(s.networkLSAs) THEN "bidir" ELSE @]]
  /\ UNCHANGED <<sched, page>>

Bidirectional(c) ==
  /\ calls[c].pc = "bidir"
  /\ Runnable(c)
  /\ LET s   == calls[c]
         ids == [k \in DOMAIN s.routerMap |-> s.routerMap[k].id]
     IN  calls' = [calls EXCEPT ![c] =
           [@ EXCEPT !.routerMap = EnforceBidirectional(s.routerMap, ids, 1),
                     !.i = 1,
                     !.pc = AfterBidir(s)]]
  /\ UNCHANGED <<sched, page>>

AttachSummary(c) ==
  /\ calls[c].pc = "summary"
  /\ Runnable(c)
  /\ LET s == calls[c] IN
     calls' = [calls EXCEPT ![c] =
       [@ EXCEPT !.routerMap = AttachSummaryLSA(@, s.summaryLSAs[s.i]),
                 !.i = IF s.i = Len(s.summaryLSAs) THEN 1 ELSE s.i + 1,
                 !.pc = IF s.i = Len(s.summaryLSAs) THEN AfterSummary(s) ELSE @]]
  /\ UNCHANGED <<sched, page>>

AttachExternal(c) ==
  /\ calls[c].pc = "external"
  /\ Runnable(c)
  /\ LET s == calls[c] IN
     calls' = [calls EXCEPT ![c] =
       [@ EXCEPT !.routerMap = AttachExternalLSA(@, s.externalLSAs[s.i]),
                 !.i = IF s.i = Len(s.externalLSAs) THEN 1 ELSE s.i + 1,
                 !.pc = IF s.i = Len(s.externalLSAs) THEN "auxiliary" ELSE @]]
  /\ UNCHANGED <<sched, page>>

\* Neighbor entries, interface details, learned routes, process info: none of
\* the four loops can be left early.
AttachAuxiliary(c) ==
  /\ calls[c].pc = "auxiliary"
  /\ Runnable(c)
  /\ LET s   == calls[c]
         rm1 == AttachNeighborEntries(s.routerMap, s.neighborEntries, 1)
         rm2 == EnrichInterfaces(rm1, s.ifaceDetails, 1)
         rm3 == AttachLearnedRoutes(rm2, s.processInfo, s.learnedRoutes)
     IN  calls' = [calls EXCEPT ![c] =
           [@ EXCEPT !.routerMap = AttachProcessInfo(rm3, s.processInfo),
                     !.pc = "return"]]
  /\ UNCHANGED <<sched, page>>

Return(c) ==
  /\ calls[c].pc = "return"
  /\ Runnable(c)
  /\ calls' = [calls EXCEPT ![c] = [@ EXCEPT !.result = Topology(calls[c]), !.pc = "done"]]
  /\ UNCHANGED <<sched, page>>

Next ==
  \E c \in DOMAIN calls :
    \/ Extract(c)
    \/ FoldRouterLSA(c)
    \/ BuildP2P(c)
    \/ FoldNetworkLSA(c)
    \/ Bidirectional(c)
    \/ AttachSummary(c)
    \/ AttachExternal(c)
    \/ AttachAuxiliary(c)
    \/ Return(c)

(***************************************************************************)
(* The page (src/app/page.tsx): parse handler, clear handler. An optional  *)
(* value (topology | null, parseError | null) is a list of no or one       *)
(* element. The graph of the layout engine is kept without its positions.  *)
(***************************************************************************)
NoDataError == "No OSPF data found"

MaxEvents == 200

\* useState(""), useState(false), useState(null), useState([]) ...
\* timers: the callbacks given to setTimeout(..., 50) that have not run, each
\* with the values its closure captured; running: the callback that is running.
PageInit ==
  [inputText |-> <<EmptyLine>>, isParsing |-> FALSE, parseError |-> << >>,
   topology |-> << >>, nodes |-> << >>, edges |-> << >>, events |-> << >>,
   timers |-> << >>, running |-> << >>, clicks |-> 0]

\* !inputText.trim()
Blank(text) == \A i \in DOMAIN text : text[i].k = "other" /\ text[i].s = ""

\* buildGraph: a node per router and per network, an edge per link.
buildGraph(T) ==
  [nodes |-> [i \in DOMAIN T.routers |-> [id |-> T.routers[i].id, status |-> "stable"]]
             \o [i \in DOMAIN T.networks |-> [id |-> T.networks[i].id, status |-> "stable"]],
   edges |-> [i \in DOMAIN T.links |->
                [key |-> LinkKey(T.links[i]), cost |-> T.links[i].cost,
                 status |-> "stable", oldCost |-> UndefNum]]]

HasChange(changes, type, field, x) ==
  \E i \in DOMAIN changes : changes[i].type = type /\ changes[i][field] = x

\* New nodes are flagged, removed nodes are overlaid from the previous graph.
applyNodeStatuses(graphNodes, changes, previousNodes) ==
  [i \in DOMAIN graphNodes |->
     IF HasChange(changes, "router-added", "routerId", graphNodes[i].id)
       THEN [graphNodes[i] EXCEPT !.status = "new"] ELSE graphNodes[i]]
  \o [i \in DOMAIN SelectSeq(previousNodes,
                     LAMBDA n : HasChange(changes, "router-removed", "routerId", n.id)) |->
        [SelectSeq(previousNodes,
           LAMBDA n : HasChange(changes, "router-removed", "routerId", n.id))[i]
         EXCEPT !.status = "removed"]]

applyEdgeStatuses(graphEdges, changes, previousEdges) ==
  [i \in DOMAIN graphEdges |->
     IF HasChange(changes, "link-added", "linkId", graphEdges[i].key)
       THEN [graphEdges[i] EXCEPT !.status = "new"]
     ELSE IF HasChange(changes, "metric-changed", "linkId", graphEdges[i].key)
       THEN LET c == CHOOSE j \in DOMAIN changes :
                       changes[j].type = "metric-changed"
                       /\ changes[j].linkId = graphEdges[i].key
            IN  [graphEdges[i] EXCEPT !.status = "changed",
                                      !.oldCost = changes[c].oldValue[2]]
     ELSE graphEdges[i]]
  \o [i \in DOMAIN SelectSeq(previousEdges,
                     LAMBDA e : HasChange(changes, "link-removed", "linkId", e.key)) |->
        [SelectSeq(previousEdges,
           LAMBDA e : HasChange(changes, "link-removed", "linkId", e.key))[i]
         EXCEPT !.status = "removed"]]

\* [...changes, ...prev].slice(0, 200)
PushEvents(changes, prev) ==
  LET all == changes \o prev
  IN  IF Len(all) > MaxEvents THEN SubSeq(all, 1, MaxEvents) ELSE all

(***************************************************************************)
(* Inputs                                                                  *)
(***************************************************************************)
R1 == "1.1.1.1"

R2 == "2.2.2.2"

R3 == "3.3.3.3"

N1 == "10.0.1.0"

P2PLines(nb, data, metric) ==
  <<L("link", "another Router (point-to-point)", 0), L("linkid", nb, 0)>>
  \o (IF data = "" THEN << >> ELSE <<L("linkdata", data, 0)>>)
  \o <<L("other", "Number of TOS metrics: 0", 0), L("tos0", "", metric)>>

StubLines(net, mask, metric) ==
  <<L("link", "a Stub Network", 0), L("linkid", net, 0), L("linkdata", mask, 0),
    L("tos0", "", metric)>>

TransitLines(dr, addr, metric) ==
  <<L("link", "a Transit Network", 0), L("linkid", dr, 0), L("linkdata", addr, 0),
    L("tos0", "", metric)>>

Markers(abr, asbr) ==
  (IF abr THEN <<L("abr", "", 0)>> ELSE << >>) \o (IF asbr THEN <<L("asbr", "", 0)>> ELSE << >>)

RouterBlock(rid, age, seq, abr, asbr, linkLines) ==
  <<L("age", "", age), L("other", "Options: (No TOS-capability, DC)", 0),
    L("type", TypeRouter, 0), L("lsid", rid, 0), L("adv", rid, 0),
    L("seq", seq, 0), L("cks", "0x1A2B", 0)>>
  \o Markers(abr, asbr) \o linkLines

NetworkBlock(nid, adv, attached) ==
  <<L("age", "", 7), L("type", TypeNetwork, 0), L("lsid", nid, 0), L("adv", adv, 0),
    L("seq", "80000001", 0), L("mask", "/24", 0)>>
  \o [k \in DOMAIN attached |-> L("attached", attached[k], 0)]

SummaryBlock(sig, net, adv, metric) ==
  <<L("maxage", "", 3600), L("type", sig, 0), L("lsid", net, 0), L("adv", adv, 0),
    L("seq", "80000002", 0), L("mask", "/24", 0), L("tos0", "", metric)>>

ExternalBlock(net, adv, metric) ==
  <<L("age", "", 9), L("type", TypeExt, 0), L("lsid", net, 0), L("adv", adv, 0),
    L("seq", "80000003", 0), L("mask", "/0", 0), L("mtype", "", 2),
    L("tos0", "", metric), L("fwd", "0.0.0.0", 0), L("tag", "", 0)>>

AreaHeader(title, area) == <<L("hdr", area, 0)>>

\* A command marker line, and a Router LSA rendered without its id fields.
PartialBlock ==
  <<L("other", "! show ip ospf database router", 0), L("age", "", 4),
    L("type", TypeRouter, 0), L("seq", "80000009", 0)>>

Pool ==
  { AreaHeader("Summary Net", "1"),
    RouterBlock(R1, 5, "80000005", FALSE, FALSE,
                P2PLines(R2, "10.0.0.1", 10) \o StubLines("192.168.1.0", "255.255.255.0", 1)),
    RouterBlock(R2, 0, "", FALSE, FALSE,
                P2PLines(R1, "10.0.0.2", 20) \o TransitLines(N1, "10.0.1.2", 5)),
    RouterBlock(R1, 6, "80000006", TRUE, FALSE, P2PLines(R3, "", 0)),
    NetworkBlock(N1, R2, <<R2, R3>>),
    NetworkBlock(N1, R2, <<R2, R3>>) \o NetworkBlock(N1, R1, <<R1, R2>>),
    SummaryBlock(TypeSum4, "4.4.4.4", R3, 30),
    ExternalBlock("0.0.0.0", R2, 1),
    PartialBlock }

BSeq(S, n) == UNION {[1..m -> S] : m \in 0..n}

\* The text made of the chunks cs, one line list; "" for no chunk.
Text(cs) == IF cs = << >> THEN <<EmptyLine>> ELSE Flatten(cs)

(***************************************************************************)
(* Auxiliary command texts                                                 *)
(***************************************************************************)
NbrLine(id, pri, state, dead, addr, ifc) ==
  [k |-> "nbr", s |-> id, n |-> pri, state |-> state, deadTime |-> dead,
   address |-> addr, interface |-> ifc]

IfAddrLine(addr, area) == [k |-> "ifaddr", s |-> addr, n |-> 0, area |-> area]

TimerLine(hello, dead) == [k |-> "timer", s |-> "", n |-> hello, dead |-> dead]

RouteLine(type, prefix, metric, via, ifc) ==
  [k |-> "route", s |-> prefix, n |-> metric, routeType |-> type, nextHop |-> via,
   outInterface |-> ifc]

NoAux ==
  [showIpOspf |-> Undefined, showIpOspfNeighbor |-> Undefined,
   showIpOspfInterface |-> Undefined, showIpRouteOspf |-> Undefined]

\* The four outputs of router 1.1.1.1: a neighbor table that names 2.2.2.2
\* twice on one interface and an unknown router reached at 10.0.0.1, and the
\* detail of the interface 10.0.0.1.
AuxOfR1 ==
  [showIpOspf |->
     <<L("pid", "1", 0), L("rid", R1, 0), L("other", "Supports only single TOS(TOS0) routes", 0),
       L("nareas", "", 2), L("refbw", "", 100)>>,
   showIpOspfNeighbor |->
     <<L("other", "Neighbor ID     Pri   State", 0),
       NbrLine(R2, 1, "FULL/DR", "00:00:38", "10.0.0.2", "GigabitEthernet0/0"),
       NbrLine("9.9.9.9", 0, "2WAY/DROTHER", "00:00:31", "10.0.0.1", "GigabitEthernet0/1"),
       NbrLine(R2, 1, "FULL/DR", "00:00:33", "10.0.0.2", "GigabitEthernet0/0")>>,
   showIpOspfInterface |->
     <<L("cost", "", 7), L("ifstart", "GigabitEthernet0/0", 0), IfAddrLine("10.0.0.1", "0"),
       L("cost", "", 1), L("nettype", "BROADCAST", 0), L("state", "DR", 0),
       L("dr", "10.0.0.1", 0), L("bdr", "10.0.0.2", 0), TimerLine(10, 40),
       L("ifstart", "Loopback0", 0)>>,
   showIpRouteOspf |->
     <<RouteLine("O", "10.0.1.0/24", 20, "10.0.0.2", "GigabitEthernet0/0"),
       L("other", "Gateway of last resort is not set", 0),
       RouteLine("O IA", "172.16.0.0/16", 30, "10.0.0.2", "")>>]

\* The outputs of a router that has no LSA in the database text, with an empty
\* neighbor table.
AuxOfStranger ==
  [showIpOspf |-> <<L("rid", "7.7.7.7", 0)>>,
   showIpOspfNeighbor |-> <<EmptyLine>>,
   showIpOspfInterface |-> Undefined,
   showIpRouteOspf |-> <<RouteLine("O E2", "0.0.0.0/0", 1, "10.0.0.2", "Serial0/0")>>]

\* A process header without its Router ID line, the detail of the interface
\* 10.0.0.2 of cost 0, and a route table.
AuxNoRouterId ==
  [showIpOspf |-> <<L("pid", "10", 0)>>,
   showIpOspfNeighbor |-> Undefined,
   showIpOspfInterface |->
     <<L("ifstart", "Serial0/0", 0), L("nettype", "POINT_TO_POINT", 0),
       IfAddrLine("10.0.0.2", "1"), L("cost", "", 0)>>,
   showIpRouteOspf |-> <<RouteLine("O", "10.0.1.0/24", 20, "10.0.0.1", "Serial0/0")>>]

AuxPool == {NoAux, AuxOfR1, AuxOfStranger, AuxNoRouterId}

Bundle(isString, raw, dbRouter, dbNetwork, aux) ==
  [isString |-> isString, raw |-> raw, showIpOspfDatabaseRouter |-> dbRouter,
   showIpOspfDatabaseNetwork |-> dbNetwork, showIpOspf |-> aux.showIpOspf,
   showIpOspfNeighbor |-> aux.showIpOspfNeighbor,
   showIpOspfInterface |-> aux.showIpOspfInterface,
   showIpRouteOspf |-> aux.showIpRouteOspf]

\* typeof input === "string": multi = { raw: input }
StringInput(cs) == Bundle(TRUE, Text(cs), Undefined, Undefined, NoAux)

RawBundle(cs, aux) == Bundle(FALSE, Text(cs), Undefined, Undefined, aux)

\* {} for no chunk; else the first chunk as the router database text and the
\* rest, when there is one, as the network database text.
DbBundle(cs) ==
  Bundle(FALSE, Undefined,
         IF cs = << >> THEN Undefined ELSE Text(<<Head(cs)>>),
         IF Len(cs) <= 1 THEN Undefined ELSE Text(Tail(cs)), NoAux)

Inputs(cs) == {StringInput(cs), DbBundle(cs)} \cup {RawBundle(cs, aux) : aux \in AuxPool}

MaxChunks == 3

Init ==
  /\ \E cs \in BSeq(Pool, MaxChunks) : \E input \in Inputs(cs) :
       calls = <<InitCall(input)>>
  /\ sched = <<1>>
  /\ page = PageInit

Spec == Init /\ [][Next]_vars

(***************************************************************************)
(* Two parses of the same LSA records in two orders                        *)
(***************************************************************************)
RolePool ==
  << RouterBlock(R1, 5, "80000005", FALSE, FALSE, << >>),
     RouterBlock(R1, 6, "80000006", TRUE, FALSE, << >>),
     RouterBlock(R1, 7, "80000007", FALSE, TRUE, << >>),
     RouterBlock(R1, 8, "80000008", TRUE, TRUE, << >>),
     SummaryBlock(TypeSum3, "10.9.0.0", R1, 3),
     SummaryBlock(TypeSum4, "4.4.4.4", R1, 30),
     ExternalBlock("0.0.0.0", R1, 1),
     ExternalBlock("0.0.0.0", R2, 1),
     NetworkBlock(N1, R2, <<R1, R2>>) >>

\* The selections of at most n records of the pool, each in the pool's order.
Selections(n) ==
  UNION { { s \in [1..m -> DOMAIN RolePool] : \A i, j \in 1..m : i < j => s[i] <= s[j] }
          : m \in 0..n }

Perms(n) == {f \in [1..n -> 1..n] : \A i, j \in 1..n : f[i] = f[j] => i = j}

MaxRoleChunks == 3

\* Call 1 parses a selection of records in the pool's order, call 2 the same
\* records in any order: any two orderings of a selection are each compared
\* with the same first call.
InitRoles ==
  /\ \E s \in Selections(MaxRoleChunks) : \E f \in Perms(Len(s)) :
       calls = <<InitCall(StringInput([k \in DOMAIN s |-> RolePool[s[k]]])),
                 InitCall(StringInput([k \in DOMAIN s |-> RolePool[s[f[k]]]]))>>
  /\ sched = <<1, 1>>
  /\ page = PageInit

SpecRoles == InitRoles /\ [][Next]_vars

(***************************************************************************)
(* Two parses of one input, and a parse of another input on another thread *)
(***************************************************************************)
CallPool ==
  { RouterBlock(R1, 5, "80000005", FALSE, FALSE, P2PLines(R2, "10.0.0.1", 10))
      \o NetworkBlock(N1, R2, <<R2, R3>>)
      \o SummaryBlock(TypeSum4, "4.4.4.4", R1, 30),
    AreaHeader("Router", "1")
      \o RouterBlock(R2, 0, "", FALSE, TRUE, P2PLines(R1, "10.0.0.2", 20))
      \o ExternalBlock("0.0.0.0", R3, 1) }

MaxCallChunks == 2

\* A text alone, or a bundle of at most one chunk and the auxiliary outputs of
\* 1.1.1.1.
CallInputs ==
  {StringInput(cs) : cs \in BSeq(CallPool, MaxCallChunks)}
    \cup {RawBundle(cs, AuxOfR1) : cs \in BSeq(CallPool, 1)}

InitCalls ==
  /\ \E x, y \in CallInputs : calls = <<InitCall(x), InitCall(y), InitCall(x)>>
  /\ sched = <<1, 2, 1>>
  /\ page = PageInit

SpecCalls == InitCalls /\ [][Next]_vars

(***************************************************************************)
(* One parse of Router LSAs whose id fields, metric lines, stub links and  *)
(* freshness fields vary                                                   *)
(***************************************************************************)
\* A Router LSA block with the given id lines and, when not "", sequence
\* number and checksum lines.
RouterBlockOf(idLines, age, seq, cks, linkLines) ==
  <<L("age", "", age), L("type", TypeRouter, 0)>> \o idLines
  \o (IF seq = "" THEN << >> ELSE <<L("seq", seq, 0)>>)
  \o (IF cks = "" THEN << >> ELSE <<L("cks", cks, 0)>>)
  \o linkLines

\* A link descriptor: its header, its Link ID, then the given lines.
LinkLines(desc, id, rest) == <<L("link", desc, 0), L("linkid", id, 0)>> \o rest

FieldPool ==
  << RouterBlockOf(<<L("lsid", R1, 0), L("adv", R2, 0)>>, 5, "80000005", "0x5555",
       LinkLines("a Stub Network", "192.168.1.0",
                 <<L("linkdata", "255.255.255.0", 0), L("tos0", "", 1)>>)),
     RouterBlockOf(<<L("lsid", R1, 0)>>, 0, "", "",
       LinkLines("another Router (point-to-point)", R2,
                 <<L("metric", "", 7), L("tos0", "", 0)>>)),
     RouterBlockOf(<<L("adv", R2, 0)>>, 9, "80000009", "0x9999",
       LinkLines("another Router (point-to-point)", R1,
                 <<L("tos0", "", 0), L("metric", "", 7)>>)),
     PartialBlock,
     RouterBlockOf(<<L("lsid", R1, 0), L("adv", R1, 0)>>, 6, "80000006", "0x6666",
       LinkLines("a Stub Network", "192.168.1.0",
                 <<L("linkdata", "255.255.255.0", 0), L("tos0", "", 1)>>)
       \o LinkLines("a Stub Network", "192.168.1.0",
                    <<L("linkdata", "255.255.255.0", 0), L("metric", "", 4)>>)
       \o LinkLines("a Stub Network", "172.16.0.0", << >>)),
     RouterBlockOf(<<L("adv", R1, 0), L("lsid", R1, 0)>>, 8, "80000008", "0x8888",
       LinkLines("a Transit Network", N1,
                 <<L("linkdata", "10.0.1.1", 0), L("tos0", "", 5), L("metric", "", 9)>>)
       \o LinkLines("another Router (point-to-point)", R3,
                    <<L("metric", "", 9), L("tos0", "", 5)>>)),
     NetworkBlock(N1, R1, <<R1, R3>>)
       \o SummaryBlock(TypeSum3, "10.9.0.0", R3, 3)
       \o ExternalBlock("0.0.0.0", R3, 1) >>

MaxFieldChunks == 3

InitFields ==
  /\ \E cs \in BSeq(Range(FieldPool), MaxFieldChunks) : calls = <<InitCall(StringInput(cs))>>
  /\ sched = <<1>>
  /\ page = PageInit

SpecFields == InitFields /\ [][Next]_vars

(***************************************************************************)
(* A parse of a bundle and, after it, the parse of the same database text  *)
(* alone                                                                   *)
(***************************************************************************)
PairPool ==
  { AreaHeader("Router", "1"),
    RouterBlock(R1, 5, "80000005", FALSE, FALSE,
                P2PLines(R2, "10.0.0.1", 10) \o TransitLines(N1, "10.0.1.1", 5)),
    RouterBlock(R2, 4, "80000004", TRUE, FALSE, P2PLines(R1, "10.0.0.2", 20)),
    NetworkBlock(N1, R1, <<R2, R3>>),
    NetworkBlock(N1, R2, <<R1, R2>>),
    SummaryBlock(TypeSum4, "4.4.4.4", R3, 30) \o ExternalBlock("0.0.0.0", R2, 1) }

\* The bundles made of the text of cs: with the auxiliary outputs aux, and
\* with the text supplied a second time as the router database text.
PairVariants(cs) ==
  {RawBundle(cs, aux) : aux \in AuxPool \ {NoAux}}
    \cup {Bundle(FALSE, Text(cs), Text(cs), Undefined, NoAux)}

MaxPairChunks == 3

InitPairs ==
  /\ \E cs \in BSeq(PairPool, MaxPairChunks) : \E b \in PairVariants(cs) :
       calls = <<InitCall(b), InitCall(RawBundle(cs, NoAux))>>
  /\ sched = <<1, 1>>
  /\ page = PageInit

SpecPairs == InitPairs /\ [][Next]_vars

(***************************************************************************)
(* The page: the user edits the text, presses Parse and Clear; the parse   *)
(* runs in a timer callback, which is one call of parseOSPFData.           *)
(***************************************************************************)
PageTexts ==
  { <<EmptyLine>>,
    PartialBlock,
    RouterBlock(R1, 5, "80000005", FALSE, FALSE, P2PLines(R2, "", 10)),
    RouterBlock(R1, 5, "80000005", FALSE, FALSE, P2PLines(R2, "", 10))
      \o RouterBlock(R2, 6, "80000006", FALSE, FALSE, P2PLines(R1, "", 20)),
    RouterBlock(R1, 5, "80000005", FALSE, FALSE, P2PLines(R2, "", 10))
      \o RouterBlock(R2, 6, "80000006", FALSE, FALSE, P2PLines(R1, "", 30)),
    AreaHeader("Router", "1")
      \o RouterBlock(R1, 5, "80000005", TRUE, FALSE, P2PLines(R2, "", 20))
      \o NetworkBlock(N1, R3, <<R3, R1>>)
      \o SummaryBlock(TypeSum3, "10.9.0.0", R1, 3)
      \o ExternalBlock("0.0.0.0", R3, 1) }

MaxParses == 3

\* onChange={setInputText}
SetInputText ==
  /\ page.running = << >>
  /\ \E text \in PageTexts : page' = [page EXCEPT !.inputText = text]
  /\ UNCHANGED <<calls, sched>>

\* handleParse up to setTimeout: the callback captures inputText, topology,
\* nodes and edges of the render the handler belongs to. The Parse button is
\* disabled while isParsing (input-panel.tsx, disabled={... || isParsing}).
HandleParse ==
  /\ page.running = << >>
  /\ ~page.isParsing
  /\ page.clicks < MaxParses
  /\ IF Blank(page.inputText) THEN UNCHANGED page
     ELSE page' = [page EXCEPT
            !.isParsing = TRUE,
            !.parseError = << >>,
            !.clicks = @ + 1,
            !.timers = Append(@, [inputText |-> page.inputText, topology |-> page.topology,
                                  nodes |-> page.nodes, edges |-> page.edges])]
  /\ UNCHANGED <<calls, sched>>

\* The Clear button is disabled while there is no input text.
HandleClear ==
  /\ page.running = << >>
  /\ ~Blank(page.inputText)
  /\ page' = [page EXCEPT !.inputText = <<EmptyLine>>, !.topology = << >>,
                          !.nodes = << >>, !.edges = << >>, !.parseError = << >>,
                          !.events = << >>]
  /\ UNCHANGED <<calls, sched>>

\* The timer callback starts: parseOSPFData(inputText) is called.
TimerFires ==
  /\ page.running = << >>
  /\ page.timers # << >>
  /\ page' = [page EXCEPT !.running = <<Head(page.timers)>>, !.timers = Tail(@)]
  /\ calls' = <<InitCall(Bundle(TRUE, Head(page.timers).inputText,
                                Undefined, Undefined, NoAux))>>
  /\ sched' = <<1>>

\* The callback that does not return after reporting that no data was found.
ParsedPageNoReturn(pg, cl, parsed) ==
  LET graph == buildGraph(parsed)
      err   == IF Len(parsed.routers) = 0 /\ Len(parsed.networks) = 0
                 THEN <<NoDataError>> ELSE pg.parseError
  IN  [pg EXCEPT !.parseError = err, !.topology = <<parsed>>, !.nodes = graph.nodes,
                 !.edges = graph.edges, !.isParsing = FALSE]

\* The page after the callback whose closure is cl got parsed from the parser.
ParsedPage(pg, cl, parsed) ==
  LET graph   == buildGraph(parsed)
      changes == IF cl.topology # << >> THEN diffTopologies(cl.topology[1], parsed)
                 ELSE << >>
  IN  IF Len(parsed.routers) = 0 /\ Len(parsed.networks) = 0
        THEN [pg EXCEPT !.parseError = <<NoDataError>>, !.isParsing = FALSE]
      ELSE IF cl.topology # << >> /\ Len(changes) > 0
        THEN [pg EXCEPT !.nodes = applyNodeStatuses(graph.nodes, changes, cl.nodes),
                        !.edges = applyEdgeStatuses(graph.edges, changes, cl.edges),
                        !.events = PushEvents(changes, @),
                        !.topology = <<parsed>>,
                        !.isParsing = FALSE]
      ELSE [pg EXCEPT !.topology = <<parsed>>, !.nodes = graph.nodes,
                      !.edges = graph.edges, !.isParsing = FALSE]

\* The rest of the timer callback, after parseOSPFData returned.
HandleParsed ==
  /\ page.running # << >>
  /\ Len(calls) = 1 /\ calls[1].pc = "done"
  /\ page' = [ParsedPage(page, page.running[1], calls[1].result) EXCEPT !.running = << >>]
  /\ calls' = << >>
  /\ sched' = << >>

NextPage ==
  \/ SetInputText
  \/ HandleParse
  \/ HandleClear
  \/ TimerFires
  \/ HandleParsed
  \/ Next

InitPage ==
  /\ calls = << >>
  /\ sched = << >>
  /\ page = PageInit

SpecPage == InitPage /\ [][NextPage]_vars

(***************************************************************************)
(* Properties of the returned Topology                                     *)
(***************************************************************************)
Done(c) == calls[c].pc = "done"

RouterIds(T) == {T.routers[i].id : i \in DOMAIN T.routers}

NetworkIds(T) == {T.networks[i].id : i \in DOMAIN T.networks}

\* C1: in the returned Topology, whenever N is in R.neighbors and a router N
\* is present, R is in N.neighbors; also when only one side's Router LSA was
\* in the input.
C1_SymmetryClosure ==
  \A c \in DOMAIN calls : Done(c) =>
    LET T == calls[c].result IN
    \A i, j \in DOMAIN T.routers :
      Includes(T.routers[i].neighbors, T.routers[j].id)
        => Includes(T.routers[j].neighbors, T.routers[i].id)

\* A router with two neighbors, one of which never originated a Router LSA.
C1_Witness ==
  \E c \in DOMAIN calls : Done(c) /\
    LET T == calls[c].result IN
    \E i, j \in DOMAIN T.routers :
      /\ i # j
      /\ Len(T.routers[i].neighbors) >= 2
      /\ Includes(T.routers[i].neighbors, T.routers[j].id)
      /\ Includes(T.routers[j].neighbors, T.routers[i].id)
      /\ ~Includes(T.routers[j].lsaTypes, LsaRouter)

\* C2: no two links of the returned Topology have the same unordered endpoint
\* pair and the same link type.
C2_NoDuplicateLinkKeys ==
  \A c \in DOMAIN calls : Done(c) =>
    LET T == calls[c].result IN
    \A i, j \in DOMAIN T.links :
      ({T.links[i].source, T.links[i].target} = {T.links[j].source, T.links[j].target}
         /\ T.links[i].linkType = T.links[j].linkType) => i = j

\* The input repeats a Network LSA and the raw link list held duplicates.
C2_Witness ==
  \E c \in DOMAIN calls : Done(c) /\
    /\ \E k, m \in DOMAIN calls[c].networkLSAs :
         k # m /\ calls[c].networkLSAs[k] = calls[c].networkLSAs[m]
    /\ Len(calls[c].links) > Len(calls[c].result.links)
    /\ Len(calls[c].result.links) >= 2

\* The point-to-point descriptors towards b in the Router LSAs of a:
\* <<index of the LSA, index of the descriptor>>.
P2PDescs(c, a, b) ==
  UNION { { <<k, j>> : j \in { j \in DOMAIN calls[c].routerLSAs[k].links :
                                 /\ calls[c].routerLSAs[k].links[j].type = "point-to-point"
                                 /\ calls[c].routerLSAs[k].links[j].linkId = b } }
          : k \in { k \in DOMAIN calls[c].routerLSAs : calls[c].routerLSAs[k].routerId = a } }

TheOne(S) == CHOOSE x \in S : TRUE

DescMetric(c, d) == calls[c].routerLSAs[d[1]].links[d[2]].metric

P2PBetween(T, a, b) ==
  { i \in DOMAIN T.links : /\ T.links[i].linkType = "point-to-point"
                           /\ {T.links[i].source, T.links[i].target} = {a, b} }

\* C4: when A and B each announce one point-to-point link to the other, the
\* Topology has exactly one point-to-point link between them; its source is
\* the router whose LSA came first, sourceCost is the source's metric,
\* targetCost the target's metric, and cost the larger of the two.
C4_P2PDirectionalCosts ==
  \A c \in DOMAIN calls : Done(c) =>
    LET T   == calls[c].result
        ids == {calls[c].routerLSAs[k].routerId : k \in DOMAIN calls[c].routerLSAs}
    IN  \A a, b \in ids :
          (a # b /\ Cardinality(P2PDescs(c, a, b)) = 1
                 /\ Cardinality(P2PDescs(c, b, a)) = 1
                 /\ TheOne(P2PDescs(c, a, b))[1] < TheOne(P2PDescs(c, b, a))[1])
          => LET ma == DescMetric(c, TheOne(P2PDescs(c, a, b)))
                 mb == DescMetric(c, TheOne(P2PDescs(c, b, a)))
             IN  /\ Cardinality(P2PBetween(T, a, b)) = 1
                 /\ \A i \in P2PBetween(T, a, b) :
                      /\ T.links[i].source = a
                      /\ T.links[i].target = b
                      /\ T.links[i].sourceCost = ma
                      /\ T.links[i].targetCost = mb
                      /\ T.links[i].cost = IF ma >= mb THEN ma ELSE mb

\* 1.1.1.1 announces metric 10 first, 2.2.2.2 announces metric 20: one link
\* 1.1.1.1 -> 2.2.2.2 with sourceCost 10, targetCost 20, cost 20.
C4_Witness ==
  \E c \in DOMAIN calls : Done(c) /\
    /\ Cardinality(P2PDescs(c, R1, R2)) = 1
    /\ Cardinality(P2PDescs(c, R2, R1)) = 1
    /\ DescMetric(c, TheOne(P2PDescs(c, R1, R2))) = 10
    /\ DescMetric(c, TheOne(P2PDescs(c, R2, R1))) = 20
    /\ \E i \in DOMAIN calls[c].result.links :
         LET l == calls[c].result.links[i] IN
         /\ l.linkType = "point-to-point" /\ l.source = R1 /\ l.target = R2
         /\ l.sourceCost = 10 /\ l.targetCost = 20 /\ l.cost = 20

\* C5: every link of the returned Topology has cost = max(sourceCost, targetCost).
C5_CostIsMax ==
  \A c \in DOMAIN calls : Done(c) =>
    \A i \in DOMAIN calls[c].result.links :
      LET l == calls[c].result.links[i] IN
      l.cost = IF l.sourceCost >= l.targetCost THEN l.sourceCost ELSE l.targetCost

\* A link with different directional costs, in a Topology whose raw link list
\* had duplicates that were merged.
C5_Witness ==
  \E c \in DOMAIN calls : Done(c) /\
    /\ Len(calls[c].links) > Len(calls[c].result.links)
    /\ \E i \in DOMAIN calls[c].result.links :
         /\ calls[c].result.links[i].sourceCost # calls[c].result.links[i].targetCost
         /\ calls[c].result.links[i].cost > 0

\* C6: source and target of every link are ids of a router or of a network of
\* the returned Topology.
C6_EndpointsExist ==
  \A c \in DOMAIN calls : Done(c) =>
    LET T == calls[c].result IN
    \A i \in DOMAIN T.links :
      /\ T.links[i].source \in RouterIds(T) \cup NetworkIds(T)
      /\ T.links[i].target \in RouterIds(T) \cup NetworkIds(T)

\* A point-to-point link to a router that was created lazily, next to a
\* transit link from a network.
C6_Witness ==
  \E c \in DOMAIN calls : Done(c) /\
    LET T == calls[c].result IN
    /\ \E i \in DOMAIN T.links : \E k \in DOMAIN T.routers :
         /\ T.links[i].linkType = "point-to-point"
         /\ T.routers[k].id = T.links[i].target
         /\ T.routers[k].lsaTypes = << >>
    /\ \E i \in DOMAIN T.links :
         T.links[i].linkType = "transit" /\ T.links[i].source \in NetworkIds(T)

\* C7: the area of every router, network, link and summary route of the
\* returned Topology is an element of Topology.areas.
C7_AreasCover ==
  \A c \in DOMAIN calls : Done(c) =>
    LET T == calls[c].result IN
    /\ \A i \in DOMAIN T.routers : Includes(T.areas, T.routers[i].area)
    /\ \A i \in DOMAIN T.networks : Includes(T.areas, T.networks[i].area)
    /\ \A i \in DOMAIN T.links : Includes(T.areas, T.links[i].area)
    /\ \A i \in DOMAIN T.summaryRoutes : Includes(T.areas, T.summaryRoutes[i].area)

NoRecord(c) ==
  /\ calls[c].routerLSAs = << >>
  /\ calls[c].networkLSAs = << >>
  /\ calls[c].summaryLSAs = << >>
  /\ calls[c].externalLSAs = << >>

\* parseOSPFData("") and parseOSPFData({})
EmptyString(input) == input.isString /\ ~Present(input.raw)

EmptyBundle(input) ==
  /\ ~input.isString
  /\ input.raw = Undefined
  /\ input.showIpOspfDatabaseRouter = Undefined
  /\ input.showIpOspfDatabaseNetwork = Undefined
  /\ input.showIpOspf = Undefined
  /\ input.showIpOspfNeighbor = Undefined
  /\ input.showIpOspfInterface = Undefined
  /\ input.showIpRouteOspf = Undefined

EmptyArrays(T) ==
  T.routers = << >> /\ T.networks = << >> /\ T.links = << >> /\ T.areas = << >>

\* C8: the empty string, the empty bundle and every input from which no LSA
\* record is extracted return a Topology with no router, network, link or area.
C8_EmptyInputEmptyTopology ==
  \A c \in DOMAIN calls : Done(c) =>
    /\ (EmptyString(calls[c].input) \/ EmptyBundle(calls[c].input))
         => EmptyArrays(calls[c].result)
    /\ NoRecord(c) => EmptyArrays(calls[c].result)

\* A bundle whose text has an area header and an LSA block without id fields,
\* and whose auxiliary outputs yield process info and learned routes: no record.
C8_Witness ==
  \E c \in DOMAIN calls : Done(c) /\
    /\ NoRecord(c)
    /\ calls[c].processInfo # << >>
    /\ calls[c].learnedRoutes # << >>
    /\ HasLine(DbLines(calls[c].input), "hdr")
    /\ HasLine(DbLines(calls[c].input), "age")
    /\ EmptyArrays(calls[c].result)

\* C3: two parses of the same LSA records in two orders give every router
\* the same final role (calls 1 and 2 of SpecRoles parse two orderings).
C3_RoleOrderIndependent ==
  (Len(calls) = 2 /\ Done(1) /\ Done(2)) =>
    LET A == calls[1].result.routers
        B == calls[2].result.routers
    IN  /\ \A i \in DOMAIN A : \E j \in DOMAIN B : B[j].id = A[i].id /\ B[j].role = A[i].role
        /\ \A j \in DOMAIN B : \E i \in DOMAIN A : A[i].id = B[j].id /\ A[i].role = B[j].role

\* Two different orderings; a router without role markers that carries a
\* Type-4 summary and an external route, the external LSA first in one text.
C3_Witness ==
  /\ Len(calls) = 2 /\ Done(1) /\ Done(2)
  /\ calls[1].input # calls[2].input
  /\ \E i \in DOMAIN calls[1].result.routers :
       LET r == calls[1].result.routers[i] IN
       /\ r.role = "abr"
       /\ r.externalRoutes # << >>
       /\ \A k \in DOMAIN calls[1].routerLSAs : ~calls[1].routerLSAs[k].isABR
  /\ IsLSAStart(calls[2].input.raw[1]) /\ calls[2].input.raw[2].s = TypeExt

\* The text of call c is one LSA block, of type Router, with an Advertising
\* Router line; abr and asbr tell which marker lines the block has.
SoleRouterLSA(c, abr, asbr) ==
  LET t == DbLines(calls[c].input) IN
  /\ Cardinality({i \in DOMAIN t : IsLSAStart(t[i])}) = 1
  /\ \E a \in DOMAIN t :
       /\ IsLSAStart(t[a])
       /\ \E i \in DOMAIN t : i > a /\ t[i].k = "type" /\ t[i].s = TypeRouter
       /\ \E i \in DOMAIN t : i > a /\ t[i].k = "adv"
       /\ abr = (\E i \in DOMAIN t : i > a /\ t[i].k = "abr")
       /\ asbr = (\E i \in DOMAIN t : i > a /\ t[i].k = "asbr")

RolesAre(c, role) ==
  /\ calls[c].result.routers # << >>
  /\ \A i \in DOMAIN calls[c].result.routers : calls[c].result.routers[i].role = role

\* C9: a Router LSA that is the only record yields role internal without a
\* marker, abr with the Area Border Router marker only, asbr with the AS
\* Boundary Router marker only, and asbr with both markers.
C9_RoleFromMarkers ==
  \A c \in DOMAIN calls : Done(c) =>
    /\ SoleRouterLSA(c, FALSE, FALSE) => RolesAre(c, "internal")
    /\ SoleRouterLSA(c, TRUE, FALSE) => RolesAre(c, "abr")
    /\ SoleRouterLSA(c, FALSE, TRUE) => RolesAre(c, "asbr")
    /\ SoleRouterLSA(c, TRUE, TRUE) => RolesAre(c, "asbr")

\* A sole Router LSA with both markers, parsed to role asbr.
C9_Witness ==
  \E c \in DOMAIN calls : Done(c) /\ SoleRouterLSA(c, TRUE, TRUE) /\ RolesAre(c, "asbr")

\* C10: two calls on the same input return equal router, network and link
\* sets, whatever another call on another input does before, between or
\* interleaved with them.
C10_SameInputSameTopology ==
  \A c, d \in DOMAIN calls :
    (Done(c) /\ Done(d) /\ calls[c].input = calls[d].input) =>
      /\ Range(calls[c].result.routers) = Range(calls[d].result.routers)
      /\ Range(calls[c].result.networks) = Range(calls[d].result.networks)
      /\ Range(calls[c].result.links) = Range(calls[d].result.links)

\* Calls 1 and 3 parsed one input to a non-empty Topology while call 2, on
\* another input, is between its first and its last step.
C10_Witness ==
  /\ Len(calls) = 3 /\ Done(1) /\ Done(3)
  /\ calls[1].input = calls[3].input
  /\ calls[2].input # calls[1].input
  /\ calls[2].pc \notin {"start", "done"}
  /\ calls[2].routerMap # << >>
  /\ calls[1].result.routers # << >>
  /\ calls[1].result.links # << >>
  /\ calls[3].result = calls[1].result

(***************************************************************************)
(* Properties of the differ and of the page                                *)
(***************************************************************************)
\* The Topologies the page holds: the current one, the ones captured by the
\* timer callbacks, and the one the running callback got from the parser.
KnownTopologies ==
  Range(page.topology)
    \cup UNION {Range(page.timers[i].topology) : i \in DOMAIN page.timers}
    \cup UNION {Range(page.running[i].topology) : i \in DOMAIN page.running}
    \cup {calls[c].result : c \in {d \in DOMAIN calls : Done(d)}}

\* The running callback holds the parser's result and is about to diff it
\* against the Topology its closure captured.
AboutToDiff(A, B) ==
  /\ page.running # << >>
  /\ page.running[1].topology = <<A>>
  /\ Len(calls) = 1 /\ Done(1)
  /\ calls[1].result = B

\* C11: the diff of a Topology with itself is the empty Change list.
C11_DiffSelfEmpty ==
  \A T \in KnownTopologies : diffTopologies(T, T) = << >>

\* The callback is about to diff a Topology with links of unequal directional
\* costs against the result of parsing the same text again.
C11_Witness ==
  \E T \in KnownTopologies :
    /\ AboutToDiff(T, T)
    /\ Len(T.routers) >= 2
    /\ \E i \in DOMAIN T.links : T.links[i].sourceCost # T.links[i].cost

\* The Change that undoes c: added and removed exchanged, old and new exchanged.
Mirror(c) ==
  [c EXCEPT !.type = CASE @ = "router-added" -> "router-removed"
                       [] @ = "router-removed" -> "router-added"
                       [] @ = "link-added" -> "link-removed"
                       [] @ = "link-removed" -> "link-added"
                       [] OTHER -> @,
            !.oldValue = c.newValue,
            !.newValue = c.oldValue]

\* C12: every router-added, router-removed, link-added, link-removed and
\* metric-changed of diff(A, B) is in diff(B, A) as router-removed,
\* router-added, link-removed, link-added and metric-changed with the old and
\* the new value exchanged (for all A and B, hence exactly when).
C12_DiffUndoSymmetry ==
  \A A, B \in KnownTopologies :
    LET ab == diffTopologies(A, B)
        ba == diffTopologies(B, A)
    IN  \A i \in DOMAIN ab : ab[i].type # "area-changed" => Includes(ba, Mirror(ab[i]))

\* The callback is about to diff two Topologies whose diff adds a router,
\* adds a link and changes a metric.
C12_Witness ==
  \E A, B \in KnownTopologies :
    /\ AboutToDiff(A, B)
    /\ \E i, j, k \in DOMAIN diffTopologies(A, B) :
         /\ diffTopologies(A, B)[i].type = "router-added"
         /\ diffTopologies(A, B)[j].type = "link-added"
         /\ diffTopologies(A, B)[k].type = "metric-changed"
         /\ diffTopologies(A, B)[k].oldValue # diffTopologies(A, B)[k].newValue

\* A and B have the same routers and networks and the same link keys, and
\* their links are equal but for the costs of the link of key key.
DifferOnlyInCostOf(A, B, key) ==
  /\ A.routers = B.routers
  /\ A.networks = B.networks
  /\ {LinkKey(A.links[i]) : i \in DOMAIN A.links} = {LinkKey(B.links[i]) : i \in DOMAIN B.links}
  /\ HasLink(A.links, key)
  /\ GetLink(A.links, key).cost # GetLink(B.links, key).cost
  /\ \A i \in DOMAIN A.links :
       LET a == A.links[i]
           b == GetLink(B.links, LinkKey(a))
       IN  /\ a.source = b.source /\ a.target = b.target /\ a.area = b.area
           /\ LinkKey(a) # key =>
                a.cost = b.cost /\ a.sourceCost = b.sourceCost /\ a.targetCost = b.targetCost

\* C13: two Topologies that differ only in the cost of one link (c1, c2) have
\* a diff of exactly one Change: metric-changed, of that link, old value c1,
\* new value c2.
C13_OneMetricChange ==
  \A A, B \in KnownTopologies :
    \A i \in DOMAIN A.links :
      DifferOnlyInCostOf(A, B, LinkKey(A.links[i])) =>
        diffTopologies(A, B) =
          <<Change("metric-changed", Undef, LinkKey(A.links[i]),
                   Num(A.links[i].cost), Num(GetLink(B.links, LinkKey(A.links[i])).cost))>>

\* The callback is about to diff two Topologies that differ only in the cost
\* of one link, 20 against 30, whose source-side cost is 10 in both.
C13_Witness ==
  \E A, B \in KnownTopologies :
    /\ AboutToDiff(A, B)
    /\ \E i \in DOMAIN A.links :
         /\ DifferOnlyInCostOf(A, B, LinkKey(A.links[i]))
         /\ A.links[i].cost = 20
         /\ GetLink(B.links, LinkKey(A.links[i])).cost = 30
         /\ A.links[i].sourceCost = 10

\* C14: when parseOSPFData returned no router and no network, the rest of the
\* parse handler sets the "No OSPF data found" error and isParsing to false
\* and leaves topology, nodes, edges and the events as they are.
C14_EmptyResultKeepsPage ==
  [][(/\ page.running # << >>
      /\ page'.running = << >>
      /\ Len(calls[1].result.routers) = 0
      /\ Len(calls[1].result.networks) = 0)
     => (/\ page'.parseError = <<NoDataError>>
         /\ page'.isParsing = FALSE
         /\ page'.topology = page.topology
         /\ page'.nodes = page.nodes
         /\ page'.edges = page.edges
         /\ page'.events = page.events)]_vars

\* The error is shown after a parse that found nothing while the page keeps
\* the Topology, the graph and the events of earlier parses.
C14_Witness ==
  /\ page.parseError = <<NoDataError>>
  /\ page.isParsing = FALSE
  /\ page.running = << >>
  /\ page.topology # << >>
  /\ page.nodes # << >>
  /\ page.events # << >>

(***************************************************************************)
(* Properties of the steps of one assembly pass                            *)
(***************************************************************************)
RoleRank(role) == CASE role = "internal" -> 0 [] role = "abr" -> 1 [] role = "asbr" -> 2

\* C15: in every step of a call, every router in the router map keeps its
\* role or moves up in internal < abr < asbr.
C15_RoleNeverDemoted ==
  [][\A c \in DOMAIN calls : c \in DOMAIN calls' =>
       \A i \in DOMAIN calls[c].routerMap :
         LET r == calls[c].routerMap[i] IN
         calls[c].pc # "start" /\ HasRouter(calls'[c].routerMap, r.id) =>
           RoleRank(GetRouter(calls'[c].routerMap, r.id).role) >= RoleRank(r.role)]_vars

\* A router made asbr by its Router LSA has had a Type-4 Summary LSA and an
\* External LSA attached, and is still asbr.
C15_Witness ==
  \E c \in DOMAIN calls : \E i \in DOMAIN calls[c].routerMap :
    LET r == calls[c].routerMap[i] IN
    /\ r.role = "asbr"
    /\ Includes(r.lsaTypes, LsaRouter)
    /\ \E k \in DOMAIN r.summaryRoutes : r.summaryRoutes[k].lsaType = LsaSum4
    /\ r.externalRoutes # << >>

(***************************************************************************)
(* Properties of the block splitter and of the Router LSA extractor        *)
(***************************************************************************)
\* The positions of the lines that open something: LS-age lines and headers.
Openers(lines) ==
  SelectSeq([i \in DOMAIN lines |-> i],
            LAMBDA i : IsLSAStart(lines[i]) \/ lines[i].k = "hdr")

\* One block per opener, in input order: a header gives an area-header block,
\* an LS-age line the block of the lines from it up to the next opener.
BlocksByOpeners(lines) ==
  LET op == Openers(lines) IN
  [k \in DOMAIN op |->
     IF lines[op[k]].k = "hdr"
       THEN [isAreaHeader |-> TRUE, area |-> lines[op[k]].s, lines |-> << >>]
       ELSE [isAreaHeader |-> FALSE, area |-> Undef,
             lines |-> SubSeq(lines, op[k],
                              IF k < Len(op) THEN op[k + 1] - 1 ELSE Len(lines))]]

\* C16: for every call that returned, the splitter's blocks are, in input
\* order, one area-header block per section header and one content block
\* per LS-age line, made of the lines
\* from the LS-age line up to the next LS-age line, header or end of input;
\* so a content block starts with an LS-age line, holds no other LS-age line
\* and no header, and the lines met while no block is open are dropped.
C16_SplitterBlocks ==
  \A c \in DOMAIN calls : Done(c) =>
    LET lines  == DbLines(calls[c].input)
        blocks == splitLSABlocks(lines)
    IN  /\ blocks = BlocksByOpeners(lines)
        /\ \A b \in DOMAIN blocks : ~blocks[b].isAreaHeader =>
             /\ IsLSAStart(blocks[b].lines[1])
             /\ \A j \in 2..Len(blocks[b].lines) :
                  ~IsLSAStart(blocks[b].lines[j]) /\ blocks[b].lines[j].k # "hdr"

\* A parsed text that starts with a line outside any block, has a header
\* right after an open block and a plain line right after a header, and
\* gives two content blocks or more.
C16_Witness ==
  \E c \in DOMAIN calls :
    LET lines  == DbLines(calls[c].input)
        blocks == splitLSABlocks(lines)
    IN  /\ Done(c)
        /\ lines[1].k = "other"
        /\ \E i \in 2..(Len(lines) - 1) :
             /\ lines[i].k = "hdr"
             /\ lines[i - 1].k \notin {"hdr", "other"}
             /\ lines[i + 1].k = "other"
        /\ Cardinality({b \in DOMAIN blocks : ~blocks[b].isAreaHeader}) >= 2
        /\ \E b \in DOMAIN blocks : blocks[b].isAreaHeader

\* The Router LSA blocks of a text, in input order.
RouterTypeBlocks(lines) ==
  SelectSeq(splitLSABlocks(lines),
            LAMBDA b : ~b.isAreaHeader /\ HasType(b, TypeRouter))

\* The value of the line of class k of a block that holds one.
FieldOf(b, k) == b.lines[CHOOSE i \in DOMAIN b.lines : b.lines[i].k = k].s

Identified(b) == HasLine(b.lines, "adv") \/ HasLine(b.lines, "lsid")

IdentifiedBlocks(lines) == SelectSeq(RouterTypeBlocks(lines), Identified)

\* C17: the Router LSA records are, in input order, those of the Router LSA
\* blocks that hold an Advertising Router or a Link State ID field; the
\* record's router id is the Advertising Router when the block has one and
\* the Link State ID otherwise.  A block with neither field gives no record
\* and no router: the routers holding the Router LSA type in the result are
\* exactly those the identified blocks name.
C17_RecordIdentity ==
  \A c \in DOMAIN calls : calls[c].pc # "start" =>
    LET bs   == IdentifiedBlocks(DbLines(calls[c].input))
        recs == calls[c].routerLSAs
        ExpectedId(b) ==
          IF HasLine(b.lines, "adv") THEN FieldOf(b, "adv") ELSE FieldOf(b, "lsid")
    IN  /\ Len(recs) = Len(bs)
        /\ \A k \in DOMAIN recs : recs[k].routerId = ExpectedId(bs[k])
        /\ Done(c) =>
             {calls[c].result.routers[i].id : i \in
                {j \in DOMAIN calls[c].result.routers :
                   Includes(calls[c].result.routers[j].lsaTypes, LsaRouter)}}
               = {ExpectedId(bs[k]) : k \in DOMAIN bs}

\* A returned parse of a text holding a Router LSA block whose two id fields
\* differ, one with a single id field and one with none.
C17_Witness ==
  \E c \in DOMAIN calls :
    LET all == RouterTypeBlocks(DbLines(calls[c].input)) IN
    /\ Done(c)
    /\ \E b \in DOMAIN all :
         /\ HasLine(all[b].lines, "adv") /\ HasLine(all[b].lines, "lsid")
         /\ FieldOf(all[b], "adv") # FieldOf(all[b], "lsid")
    /\ \E b \in DOMAIN all :
         HasLine(all[b].lines, "adv") # HasLine(all[b].lines, "lsid")
    /\ \E b \in DOMAIN all : ~Identified(all[b])

\* The line sequences of the link descriptors of a block that yield a link:
\* the lines after each descriptor header up to the next one or the block's
\* end, for the descriptors that hold a Link ID.
DescriptorsOf(b) ==
  LET starts == SelectSeq([i \in DOMAIN b.lines |-> i],
                          LAMBDA i : b.lines[i].k = "link" /\ b.lines[i].s # "")
      Body(j) == SubSeq(b.lines, starts[j] + 1,
                        IF j < Len(starts) THEN starts[j + 1] - 1 ELSE Len(b.lines))
  IN  SelectSeq([j \in DOMAIN starts |-> Body(j)],
                LAMBDA body : HasLine(body, "linkid"))

\* The number on the line of class k of a descriptor that holds one.
NumberOf(body, k) == body[CHOOSE i \in DOMAIN body : body[i].k = k].n

\* C18: the metric of every link descriptor of a Router LSA block is the
\* value of its TOS-0 metric line when it has one, whatever that value and
\* the order of the lines; the value of its bare Metric line when it has no
\* TOS-0 line; and 0 when it has neither.
C18_Tos0MetricWins ==
  \A c \in DOMAIN calls : calls[c].pc # "start" =>
    LET bs   == IdentifiedBlocks(DbLines(calls[c].input))
        recs == calls[c].routerLSAs
        ExpectedMetric(body) ==
          IF HasLine(body, "tos0") THEN NumberOf(body, "tos0")
          ELSE IF HasLine(body, "metric") THEN NumberOf(body, "metric")
          ELSE 0
    IN  \A k \in DOMAIN recs :
          LET ds == DescriptorsOf(bs[k]) IN
          /\ Len(recs[k].links) = Len(ds)
          /\ \A j \in DOMAIN ds : recs[k].links[j].metric = ExpectedMetric(ds[j])

(***************************************************************************)
(* Properties of the fold of the Router LSAs                               *)
(***************************************************************************)
Occurrences(q, x) == Cardinality({i \in DOMAIN q : q[i] = x})

\* The router of the result named rid.
ResultRouter(c, rid) ==
  calls[c].result.routers[CHOOSE i \in DOMAIN calls[c].result.routers :
                             calls[c].result.routers[i].id = rid]

\* In every returned parse, each stub link of each Router LSA record has its
\* network id "stub-L-D" once in its router's networks and its label,
\* Label(L, D), once in the router's stubNetworks; no link of the result is a
\* stub link and the networks of the result are those of the Network LSAs.
StubsRegistered(c, Label(_, _)) ==
  LET recs == calls[c].routerLSAs
      res  == calls[c].result
  IN  /\ \A k \in DOMAIN recs : \A j \in DOMAIN recs[k].links :
           LET link == recs[k].links[j]
               r    == ResultRouter(c, recs[k].routerId)
           IN  link.type = "stub" =>
                 /\ Occurrences(r.networks, <<"stub", link.linkId, link.linkData>>) = 1
                 /\ Occurrences(r.stubNetworks, Label(link.linkId, link.linkData)) = 1
      /\ \A i \in DOMAIN res.links : res.links[i].linkType # "stub"
      /\ {res.networks[i].id : i \in DOMAIN res.networks}
           = {calls[c].networkLSAs[i].linkStateId : i \in DOMAIN calls[c].networkLSAs}

\* The label "L/D" of a stub link.
SlashLabel(linkId, linkData) == <<linkId, "/", linkData>>

\* The label of a stub link: "L/D", and "L" for a link without link data.
CodeLabel(linkId, linkData) ==
  IF linkData = "" THEN <<linkId>> ELSE <<linkId, "/", linkData>>

\* C19 as stated: for every stub link descriptor (link id L, link data D) of
\* a router's Router LSA, the router's networks holds "stub-L-D" and its
\* stubNetworks holds "L/D", each at most once, and stub links create no
\* Link and no Network entity.
C19_StubLabelAlwaysSlashed ==
  \A c \in DOMAIN calls : Done(c) => StubsRegistered(c, SlashLabel)

\* C19, amended: as above, the label being "L/D" for a descriptor that has
\* link data and "L" alone for a descriptor without link data.
C19_StubsRegistered ==
  \A c \in DOMAIN calls : Done(c) => StubsRegistered(c, CodeLabel)

\* A returned parse in which one router's Router LSAs hold the same stub
\* descriptor (with link data) more than once and a stub descriptor without
\* link data, next to a Network LSA.
C19_Witness ==
  \E c \in DOMAIN calls :
    LET recs == calls[c].routerLSAs IN
    /\ Done(c)
    /\ calls[c].networkLSAs # << >>
    /\ \E k \in DOMAIN recs :
         /\ \E j1, j2 \in DOMAIN recs[k].links :
              /\ j1 < j2
              /\ recs[k].links[j1].type = "stub"
              /\ recs[k].links[j1].linkData # ""
              /\ recs[k].links[j2].type = "stub"
              /\ recs[k].links[j2].linkId = recs[k].links[j1].linkId
              /\ recs[k].links[j2].linkData = recs[k].links[j1].linkData
         /\ \E j \in DOMAIN recs[k].links :
              recs[k].links[j].type = "stub" /\ recs[k].links[j].linkData = ""

\* The Router LSA records of router rid, in input order.
RecordsOf(c, rid) ==
  SelectSeq(calls[c].routerLSAs, LAMBDA lsa : lsa.routerId = rid)

\* C20: in every returned parse, the sequenceNumber, age and checksum of a
\* router that has Router LSAs are those of the first of them in input
\* order: a later Router LSA overwrites no value the first one gave, an age
\* of 0 included.  (A first LSA without a sequence number or checksum line
\* gave no value for that field.)
C20_FirstFreshnessWins ==
  \A c \in DOMAIN calls : Done(c) =>
    \A k \in DOMAIN calls[c].routerLSAs :
      LET rid   == calls[c].routerLSAs[k].routerId
          first == RecordsOf(c, rid)[1]
          r     == ResultRouter(c, rid)
      IN  /\ first.seqNumber # "" => r.sequenceNumber = first.seqNumber
          /\ r.age = first.age
          /\ first.checksum # "" => r.checksum = first.checksum

(***************************************************************************)
(* Properties of the fold of the Network, Summary and External LSAs        *)
(***************************************************************************)
HasResultRouter(c, rid) ==
  \E i \in DOMAIN calls[c].result.routers : calls[c].result.routers[i].id = rid

\* C21: in every returned parse, for every Network LSA record with Link State
\* ID n and every router id r of its attached-router list, the result has a
\* router r whose networks list holds n and a transit link between n and r
\* whose cost, sourceCost and targetCost are 0.
C21_AttachedRoutersLinked ==
  \A c \in DOMAIN calls : Done(c) =>
    \A k \in DOMAIN calls[c].networkLSAs :
      LET nlsa == calls[c].networkLSAs[k] IN
      \A j \in DOMAIN nlsa.attachedRouters :
        LET r == nlsa.attachedRouters[j] IN
        /\ HasResultRouter(c, r)
        /\ Includes(ResultRouter(c, r).networks, <<nlsa.linkStateId>>)
        /\ \E i \in DOMAIN calls[c].result.links :
             LET l == calls[c].result.links[i] IN
             /\ l.linkType = "transit"
             /\ {l.source, l.target} = {nlsa.linkStateId, r}
             /\ l.cost = 0 /\ l.sourceCost = 0 /\ l.targetCost = 0

\* A returned parse with the same Network LSA twice and a point-to-point
\* link of non-zero cost, one attached router having no Router LSA.
C21_Witness ==
  \E c \in DOMAIN calls :
    /\ Done(c)
    /\ \E k1, k2 \in DOMAIN calls[c].networkLSAs :
         /\ k1 < k2
         /\ calls[c].networkLSAs[k1] = calls[c].networkLSAs[k2]
         /\ \E j \in DOMAIN calls[c].networkLSAs[k1].attachedRouters :
              \A q \in DOMAIN calls[c].routerLSAs :
                calls[c].routerLSAs[q].routerId # calls[c].networkLSAs[k1].attachedRouters[j]
    /\ \E i \in DOMAIN calls[c].result.links :
         calls[c].result.links[i].linkType = "point-to-point"
         /\ calls[c].result.links[i].cost > 0

\* C22: in every returned parse, for every Network LSA record, the result has
\* a router whose id is the record's advertising router and whose lsaTypes
\* holds the Network LSA type, whether or not the advertising router is in
\* the record's attached-router list.
C22_NetworkOriginatorMarked ==
  \A c \in DOMAIN calls : Done(c) =>
    \A k \in DOMAIN calls[c].networkLSAs :
      LET adv == calls[c].networkLSAs[k].advertisingRouter IN
      /\ HasResultRouter(c, adv)
      /\ Includes(ResultRouter(c, adv).lsaTypes, LsaNetwork)

\* The records of q advertised by rid, in the order of q.
AdvertisedBy(q, rid) == SelectSeq(q, LAMBDA x : x.advertisingRouter = rid)

\* Every record of the top-level list all has its advertising router among
\* the routers rs, and the list picked by Own from each router is the list
\* of the records of all that the router advertises: each record is held by
\* its advertiser only, as many times as all holds it.
AttachedToAdvertisers(rs, all, Own(_)) ==
  /\ \A k \in DOMAIN all : \E i \in DOMAIN rs : rs[i].id = all[k].advertisingRouter
  /\ \A i \in DOMAIN rs : Own(rs[i]) = AdvertisedBy(all, rs[i].id)

\* C23: in every returned parse, each summary route of the result's
\* summaryRoutes is held by the router that advertises it and by no other,
\* and the routers' summaryRoutes lists together hold the records of the
\* result's summaryRoutes with the same multiplicities; the same for the
\* external routes.
C23_RoutesAtAdvertisers ==
  \A c \in DOMAIN calls : Done(c) =>
    LET res == calls[c].result IN
    /\ AttachedToAdvertisers(res.routers, res.summaryRoutes, LAMBDA r : r.summaryRoutes)
    /\ AttachedToAdvertisers(res.routers, res.externalRoutes, LAMBDA r : r.externalRoutes)

\* A returned parse with the same Summary LSA twice, advertised by a router
\* that has no Router LSA, an External LSA of another router, and a router
\* that advertises neither.
C23_Witness ==
  \E c \in DOMAIN calls :
    LET res == calls[c].result IN
    /\ Done(c)
    /\ \E k1, k2 \in DOMAIN res.summaryRoutes :
         /\ k1 < k2
         /\ res.summaryRoutes[k1] = res.summaryRoutes[k2]
         /\ \A q \in DOMAIN calls[c].routerLSAs :
              calls[c].routerLSAs[q].routerId # res.summaryRoutes[k1].advertisingRouter
         /\ \E e \in DOMAIN res.externalRoutes :
              res.externalRoutes[e].advertisingRouter
                # res.summaryRoutes[k1].advertisingRouter
    /\ \E i \in DOMAIN res.routers :
         res.routers[i].summaryRoutes = << >> /\ res.routers[i].externalRoutes = << >>

\* The role of rid in the router map rm; a router not yet in the map is
\* created internal by the step that attaches to it.
RoleIn(rm, rid) == IF HasRouter(rm, rid) THEN GetRouter(rm, rid).role ELSE "internal"

\* C24: a step that attaches a Type-4 Summary LSA to a router that is
\* internal at that moment makes it abr; a step that attaches an External
\* LSA to a router that is internal at that moment makes it asbr; a Type-3
\* Summary LSA changes no role; a router that is abr or asbr when a record is
\* attached keeps its role; and the step changes the role of no other router.
C24_AttachPromotesInternalOnly ==
  [][\A c \in DOMAIN calls :
       (/\ c \in DOMAIN calls'
        /\ calls[c].pc \in {"summary", "external"}
        /\ calls'[c] # calls[c]) =>
         LET s      == calls[c]
             rec    == IF s.pc = "summary" THEN s.summaryLSAs[s.i] ELSE s.externalLSAs[s.i]
             adv    == rec.advertisingRouter
             before == RoleIn(s.routerMap, adv)
             gained == IF s.pc = "external" THEN "asbr"
                       ELSE IF rec.lsaType = LsaSum4 THEN "abr" ELSE "internal"
         IN  /\ RoleIn(calls'[c].routerMap, adv)
                  = (IF before = "internal" THEN gained ELSE before)
             /\ HasRouter(calls'[c].routerMap, adv)
             /\ \A k \in DOMAIN s.routerMap :
                  s.routerMap[k].id # adv =>
                    RoleIn(calls'[c].routerMap, s.routerMap[k].id) = s.routerMap[k].role]_vars

\* After the attach steps of a call: a router without Router LSA that holds a
\* Type-4 summary route and an external route and is abr (made abr from
\* internal, then kept abr by the External LSA), and a router without Router
\* LSA that holds an external route and is asbr.
C24_Witness ==
  \E c \in DOMAIN calls :
    LET rm == calls[c].routerMap
        NoRouterLSA(rid) ==
          \A q \in DOMAIN calls[c].routerLSAs : calls[c].routerLSAs[q].routerId # rid
    IN  /\ calls[c].pc \in {"auxiliary", "return", "done"}
        /\ \E i \in DOMAIN rm :
             /\ rm[i].role = "abr"
             /\ NoRouterLSA(rm[i].id)
             /\ \E k \in DOMAIN rm[i].summaryRoutes : rm[i].summaryRoutes[k].lsaType = LsaSum4
             /\ rm[i].externalRoutes # << >>
        /\ \E i \in DOMAIN rm :
             /\ rm[i].role = "asbr"
             /\ NoRouterLSA(rm[i].id)
             /\ rm[i].externalRoutes # << >>

(***************************************************************************)
(* Properties of two parses of one database text                           *)
(***************************************************************************)
\* What the auxiliary data must leave alone: the routers' ids, roles,
\* neighbors lists and numbers of interfaces, and the networks, links, areas.
Skeleton(res) ==
  [routers  |-> [i \in DOMAIN res.routers |->
                   [id |-> res.routers[i].id, role |-> res.routers[i].role,
                    neighbors |-> res.routers[i].neighbors,
                    interfaces |-> Len(res.routers[i].interfaces)]],
   networks |-> res.networks,
   links    |-> res.links,
   areas    |-> res.areas]

\* Call 1 parsed a bundle with auxiliary fields and call 2 the same bundle
\* without them; both returned.
AuxPairDone ==
  /\ Len(calls) = 2
  /\ Done(1) /\ Done(2)
  /\ calls[1].input # calls[2].input
  /\ calls[1].input.raw = calls[2].input.raw
  /\ calls[1].input.showIpOspfDatabaseRouter = calls[2].input.showIpOspfDatabaseRouter
  /\ calls[1].input.showIpOspfDatabaseNetwork = calls[2].input.showIpOspfDatabaseNetwork

\* C25: the parse of a bundle with its four auxiliary fields and the parse of
\* the same bundle without them give the same router ids, roles, neighbors
\* lists and interface counts, the same networks, links and areas: the
\* auxiliary data adds or removes no router, network, link, area or
\* interface entry and changes no role and no neighbors list.
C25_AuxiliaryKeepsSkeleton ==
  AuxPairDone => Skeleton(calls[1].result) = Skeleton(calls[2].result)

\* Both parses returned and the auxiliary data did attach: in the first
\* result a router holds neighbor entries, a router holds learned routes and
\* process info, and the interfaces of a router differ from those of the
\* second result by their enrichment.
C25_Witness ==
  /\ AuxPairDone
  /\ LET rs1 == calls[1].result.routers
         rs2 == calls[2].result.routers
     IN  /\ \E i \in DOMAIN rs1 : rs1[i].neighborEntries # << >>
         /\ \E i \in DOMAIN rs1 :
              rs1[i].learnedRoutes # << >> /\ rs1[i].processInfo # rs2[i].processInfo
         /\ \E i \in DOMAIN rs1 :
              /\ rs1[i].interfaces # << >>
              /\ rs1[i].interfaces # rs2[i].interfaces

(***************************************************************************)
(* Properties of the attachment of the learned routes                      *)
(***************************************************************************)
\* The routers of the result that hold the learned routes lr.
HoldersOf(c, lr) ==
  {i \in DOMAIN calls[c].result.routers : calls[c].result.routers[i].learnedRoutes = lr}

\* The first router of the result that carries LSA data.
FirstWithLSA(c) ==
  LET rs == calls[c].result.routers
      is == {i \in DOMAIN rs : rs[i].lsaTypes # << >>}
  IN  CHOOSE i \in is : \A h \in is : i <= h

C27_OneSidedP2P ==
  \A c \in DOMAIN calls : Done(c) =>
    LET T == calls[c].result IN
    \A k \in DOMAIN calls[c].routerLSAs : \A j \in DOMAIN calls[c].routerLSAs[k].links :
      LET a == calls[c].routerLSAs[k].routerId
          b == calls[c].routerLSAs[k].links[j].linkId
          m == calls[c].routerLSAs[k].links[j].metric
      IN  (/\ P2PDescs(c, a, b) = {<<k, j>>}
           /\ P2PDescs(c, b, a) = {}) =>
            /\ HasResultRouter(c, b)
            /\ Cardinality(P2PBetween(T, a, b)) = 1
            /\ \A i \in P2PBetween(T, a, b) :
                 /\ T.links[i].source = a
                 /\ T.links[i].target = b
                 /\ T.links[i].sourceCost = m
                 /\ T.links[i].targetCost = m
                 /\ T.links[i].cost = m

\* A returned parse in which 1.1.1.1 alone announces a point-to-point link of
\* metric 10 to 2.2.2.2, a router without Router LSA, and one of metric 0
\* to 3.3.3.3.
C27_Witness ==
  \E c \in DOMAIN calls :
    /\ Done(c)
    /\ Cardinality(P2PDescs(c, R1, R2)) = 1
    /\ DescMetric(c, TheOne(P2PDescs(c, R1, R2))) = 10
    /\ \A q \in DOMAIN calls[c].routerLSAs : calls[c].routerLSAs[q].routerId # R2
    /\ HasResultRouter(c, R2)
    /\ Cardinality(P2PDescs(c, R1, R3)) = 1

\* The network of the result with id n.
ResultNetwork(c, n) ==
  calls[c].result.networks[CHOOSE i \in DOMAIN calls[c].result.networks :
                              calls[c].result.networks[i].id = n]

\* C28: in every returned parse, for every transit link between a network n
\* and a router r, the result has a network n and r is one of its
\* attachedRouters, also when several Network LSAs have the Link State ID n
\* and different attached-router lists.
C28_TransitLinksAttached ==
  \A c \in DOMAIN calls : Done(c) =>
    \A i \in DOMAIN calls[c].result.links :
      LET l == calls[c].result.links[i] IN
      l.linkType = "transit" =>
        /\ \E k \in DOMAIN calls[c].result.networks :
             calls[c].result.networks[k].id = l.source
        /\ Includes(ResultNetwork(c, l.source).attachedRouters, l.target)

(***************************************************************************)
(* Properties of the roles of the returned Topology                        *)
(***************************************************************************)
\* C29 as stated: in every returned parse, every router whose externalRoutes
\* list is not empty has the role asbr.
C29_ExternalAdvertiserIsAsbr ==
  \A c \in DOMAIN calls : Done(c) =>
    \A i \in DOMAIN calls[c].result.routers :
      LET r == calls[c].result.routers[i] IN
      r.externalRoutes # << >> => r.role = "asbr"

\* C29, amended: in every returned parse, a router whose externalRoutes list
\* is not empty is never internal: it is asbr, or abr when a Router LSA of it
\* carries the Area Border Router marker or it advertises a Type-4 Summary
\* LSA (it was abr before its first External LSA was attached) and no Router
\* LSA of it carries the AS Boundary Router marker.
C29_ExternalAdvertiserNotInternal ==
  \A c \in DOMAIN calls : Done(c) =>
    \A i \in DOMAIN calls[c].result.routers :
      LET r    == calls[c].result.routers[i]
          recs == RecordsOf(c, r.id)
      IN  r.externalRoutes # << >> =>
            /\ r.role # "internal"
            /\ r.role = "abr" =>
                 /\ \/ \E k \in DOMAIN recs : recs[k].isABR
                    \/ \E k \in DOMAIN r.summaryRoutes : r.summaryRoutes[k].lsaType = LsaSum4
                 /\ \A k \in DOMAIN recs : ~recs[k].isASBR

\* A returned parse with a router that holds external routes and is abr, and
\* a router that holds external routes and is asbr.
C29_Witness ==
  \E c \in DOMAIN calls :
    LET rs == calls[c].result.routers IN
    /\ Done(c)
    /\ \E i \in DOMAIN rs : rs[i].externalRoutes # << >> /\ rs[i].role = "abr"
    /\ \E i \in DOMAIN rs : rs[i].externalRoutes # << >> /\ rs[i].role = "asbr"

(***************************************************************************)
(* Properties of a database text supplied twice                            *)
(***************************************************************************)
\* Call 1 parsed the bundle {raw: D, showIpOspfDatabaseRouter: D} and call 2
\* the text D alone; both returned.
DoubledPairDone ==
  /\ Len(calls) = 2
  /\ Done(1) /\ Done(2)
  /\ calls[1].input.showIpOspfDatabaseRouter = calls[1].input.raw
  /\ calls[2].input.raw = calls[1].input.raw
  /\ calls[2].input.showIpOspfDatabaseRouter = Undefined

RoutersView(res) ==
  [i \in DOMAIN res.routers |->
     [id |-> res.routers[i].id, role |-> res.routers[i].role,
      area |-> res.routers[i].area, neighbors |-> res.routers[i].neighbors]]

NetworksView(res, withArea) ==
  [i \in DOMAIN res.networks |->
     [id |-> res.networks[i].id, attachedRouters |-> res.networks[i].attachedRouters,
      area |-> IF withArea THEN res.networks[i].area ELSE Undef]]

LinksView(res) ==
  [i \in DOMAIN res.links |->
     [key |-> LinkKey(res.links[i]), cost |-> res.links[i].cost,
      sourceCost |-> res.links[i].sourceCost, targetCost |-> res.links[i].targetCost]]

AreaSetFirst(lines) ==
  \/ \A i \in DOMAIN lines : lines[i].k # "hdr"
  \/ \A b \in DOMAIN lines : IsLSAStart(lines[b]) =>
       \E h \in 1..(b - 1) : lines[h].k = "hdr"

=============================================================================
